---- MODULE Spec2Model ----
(***************************************************************************)
(* GameInstance (src/src/game_instance.cpp): the driver loop that advances *)
(* the emulation engine on its own thread, the single mutex protecting the *)
(* shared state, the four rotating pixel buffers with their presentation   *)
(* modes, the breakpoint pause / unbreak handshake, break-and-trace        *)
(* sessions, rewinding, the speed multiplier, the volume, the sample       *)
(* buffer, and ROM loading.                                                *)
(*                                                                         *)
(* Memory is modelled at the byte level: a pixel buffer is a sequence of   *)
(* bytes, PixelSize bytes per 32-bit pixel, because read_pixel_buffer      *)
(* copies with memcpy and blends byte by byte.                             *)
(*                                                                         *)
(* A public operation whose whole body is "lock; ...; unlock" is one       *)
(* atomic action guarded by the mutex being free.  Operations that read or *)
(* write shared fields outside the mutex are split at those accesses.      *)
(***************************************************************************)
EXTENDS Integers, Sequences, FiniteSets, TLC

\* ---- bounds of the model ------------------------------------------------
\* pixels per frame of the largest screen (the Super Game Boy border frame)
MaxPixels == 2
\* capacity of the engine's rewind history, in entries
MaxRewind == 2
\* how many times the driver thread may call start_game_loop
MaxStarts == 2
\* the longest sample buffer a run starts with
MaxSamples == 2
\* the largest buffer size, in frames, an audio device is opened with
MaxBufferSize == 2
MaxSwitchFrames == 3
\* the program's addresses are 0..MaxAddress
MaxAddress == 2
\* the largest step count passed to break_and_trace_at
MaxSteps == 3
\* how many break-and-trace entries may be registered at once
MaxEntries == 2

\* ---- program constants --------------------------------------------------
\* sizeof(pixel_buffer) / sizeof(pixel_buffer[0])
NumBuffers == 4
\* sizeof(*pixel_buffer[0].data()), the bytes of one std::uint32_t pixel
PixelSize == 4
\* the floor of set_speed_multiplier, 0.001, in thousandths
SpeedFloor == 1
\* float frame_times[30]
FrameTimes == 30
\* GB_key_t: two of the eight keys
Keys == {"a", "start"}
\* the bounds of set_volume's clamp
MinVolume == 0
MaxVolume == 100

Null == "null"

\* the driver thread (runs start_game_loop) and the foreground callers
Driver == "driver"
Callers == {"ui", "audio"}
Threads == {Driver} \cup Callers

\* PixelBufferMode
PixelBufferMode == {"PixelBufferSingle", "PixelBufferDouble", "PixelBufferDoubleBlend"}

\* GB_model_t, reduced to one handheld model and one Super Game Boy model
Models == {"DMG", "SGB"}

\* colours (r, g, b) the engine renders frames in
Colours == {<<0, 0, 0>>, <<255, 1, 128>>}

\* commands an unbreak caller passes
Commands == {"continue", "step"}

\* the addresses of the program the engine runs
Addresses == 0..MaxAddress

VARIABLES
    \* ---- GameInstance fields
    pixel_buffer,            \* [0..3 -> Seq(byte)]
    work_buffer,
    previous_buffer,
    previous_buffer_second,
    pixel_buffer_mode,
    vblank_hit,
    manual_paused,
    rewind_paused,
    pause_zero_speed,
    rewinding,
    should_rewind,
    bp_paused,
    loop_running,
    loop_finishing,
    continue_text,           \* Null or a command
    mutex,                   \* Null or the thread that holds it
    \* ---- the engine (GB_gameboy_s)
    gb_model,
    gb_pixels_output,        \* the slot GB_set_pixels_output points the engine at
    gb_scan,                 \* pixels of the current frame already rendered
    gb_colour,               \* colour of the frame being rendered
    gb_rewind,               \* the rewind history: the saved engine states, oldest first
    gb_rewind_length,        \* GB_set_rewind_length: the entries the history may hold
    reply,                   \* on_input_requested's local continue_text: what it returns
    gb_clock_multiplier,     \* in thousandths
    \* ---- threads
    pc,                      \* [Threads -> position]
    starts,                  \* start_game_loop calls made so far
    command,                 \* [Callers -> argument of the unbreak in progress]
    destination,             \* the caller's buffer after read_pixel_buffer
    success,                 \* what read_pixel_buffer returned
    \* ---- break and trace
    current_break_and_trace_remaining,
    current_break_and_trace_step_over,
    break_and_trace_breakpoints,   \* sequence of <<address, n, over>>
    break_and_trace_result,        \* sequence of snapshots, each the PC it was taken at
    gb_pc,                   \* the engine's program counter
    gb_breakpoints,          \* the addresses in the engine's breakpoint list
    gb_stopped,              \* the debugger asks for input before the next instruction
    gb_stepping,             \* the last debugger command was "step" or "next"
    session_steps,           \* history: the n of the entry that started the last session
    \* ---- audio
    volume,
    sample_buffer,
    sample_destination,      \* the caller's vector after transfer_sample_buffer
    returned,                \* the last getter and what it returned
    \* ---- ROM loading
    rom_loaded,
    gb_rom,                  \* what GB_load_rom / GB_load_isx left in the engine
    gb_battery,              \* the file GB_load_battery read last, or Null
    gb_symbols,              \* the file GB_debugger_load_symbol_file read, or Null
    result,                  \* what load_rom / load_isx returned
    \* ---- read_pixel_buffer in steps
    source_slot,             \* [Callers -> the slot whose data() the memcpy was handed]
    \* ---- frame accounting
    frame_time_index,        \* the write cursor into frame_times
    frame_rate,              \* the number of times the frame rate was computed, mod 2
    \* ---- the audio device
    audio_enabled,
    sdl_audio_device,        \* the device id, 0 for std::nullopt (no id is 0)
    sdl_audio_buffer_size,   \* in frames
    turbo_mode_enabled,
    sdl_queued,              \* frames in the device's queue
    sdl_paused,              \* SDL_PauseAudioDevice's last argument
    sample_handled,          \* history: what the last on_sample did with its sample
    \* ---- rapid-fire buttons
    rapid_buttons,           \* the registered buttons, in the order of registration
    rapid_button_state,      \* the shared phase
    rapid_button_frames,     \* vblanks counted towards the next flip
    rapid_button_switch_frames,
    gb_keys,                 \* [Keys -> BOOLEAN]: the engine's key states (GB_set_key_state)
    flip_age,                \* history: vblanks since the phase last flipped (or construction)
    \* ---- histories
    vblanks,                 \* vblanks since construction or the last set_model, 2 for more
    delivered                \* the pairs on_sample was handed since the buffer was last taken

videoVars == <<pixel_buffer, work_buffer, previous_buffer, previous_buffer_second,
               pixel_buffer_mode, gb_model, gb_pixels_output, gb_scan, gb_colour>>
pauseVars == <<manual_paused, rewind_paused, pause_zero_speed, rewinding,
               should_rewind, vblank_hit, gb_rewind, gb_clock_multiplier,
               gb_rewind_length>>
breakVars == <<bp_paused, continue_text, reply>>
loopVars  == <<loop_running, loop_finishing, mutex, pc, starts, command>>
readVars  == <<destination, success>>
traceVars == <<current_break_and_trace_remaining, current_break_and_trace_step_over,
               break_and_trace_breakpoints, break_and_trace_result,
               gb_pc, gb_breakpoints, gb_stopped, gb_stepping, session_steps>>
audioVars == <<volume, sample_buffer, sample_destination, returned>>
romVars   == <<rom_loaded, gb_rom, gb_battery, gb_symbols, result>>
restVars  == <<traceVars, audioVars, romVars>>
frameVars == <<frame_time_index, frame_rate>>
deviceVars == <<audio_enabled, sdl_audio_device, sdl_audio_buffer_size, turbo_mode_enabled>>
queueVars == <<sdl_queued, sdl_paused>>
keyVars   == <<rapid_buttons, rapid_button_state, rapid_button_frames,
               rapid_button_switch_frames, gb_keys, flip_age>>
lateVars  == <<keyVars, vblanks, delivered>>
extVars   == <<source_slot, frameVars, deviceVars, queueVars, sample_handled, lateVars>>
vars == <<videoVars, pauseVars, breakVars, loopVars, readVars, restVars, extVars>>

\* ---- pure functions -----------------------------------------------------

\* rgb_encode: 0xFF000000 | r << 16 | g << 8 | b, as its four bytes
rgb_encode(r, g, b) == <<255, r, g, b>>

\* GB_get_screen_width * GB_get_screen_height, scaled down
get_pixel_buffer_size_without_mutex(model) ==
    IF model = "SGB" THEN MaxPixels ELSE MaxPixels - 1

\* std::vector<std::uint32_t>(n, 0xFF000000)
BlankBuffer(n) == [i \in 1..(n * PixelSize) |-> rgb_encode(0, 0, 0)[((i - 1) % PixelSize) + 1]]

\* pixel_buffer[i].size()
VectorSize(buffer) == Len(buffer) \div PixelSize

\* std::memcpy(dst, src, bytes)
memcpy(dst, src, bytes) ==
    [i \in 1..Len(dst) |-> IF i <= bytes THEN src[i] ELSE dst[i]]

\* a[q] = (unsigned(a[q]) + unsigned(b[q])) / 2 for q < bytes, stored in a uint8_t
BlendWrapped(a, b, bytes) ==
    [q \in 1..Len(a) |-> IF q <= bytes THEN (((a[q] + b[q]) % 256) \div 2) ELSE a[q]]
Blend(a, b, bytes) ==
    [q \in 1..Len(a) |-> IF q <= bytes THEN ((a[q] + b[q]) \div 2) % 256 ELSE a[q]]

\* the slot read_pixel_buffer copies from in each mode
SourceSlotSwapped(mode) ==
    IF mode = "PixelBufferSingle" THEN previous_buffer ELSE work_buffer
SourceSlot(mode) ==
    IF mode = "PixelBufferSingle" THEN work_buffer ELSE previous_buffer

\* required_length == destination_length
LengthMatchesLoose(destination_length) == VectorSize(pixel_buffer[0]) <= destination_length
LengthMatches(destination_length) == VectorSize(pixel_buffer[0]) = destination_length

\* the body of read_pixel_buffer between lock and unlock: the new destination
ReadPixels(dst, destination_length) ==
    LET required_length == VectorSize(pixel_buffer[0])
        bytes == required_length * PixelSize
        copied == memcpy(dst, pixel_buffer[SourceSlot(pixel_buffer_mode)], bytes)
    IN  IF ~LengthMatches(destination_length) THEN dst
        ELSE IF pixel_buffer_mode = "PixelBufferDoubleBlend"
             THEN Blend(copied, pixel_buffer[previous_buffer_second], bytes)
             ELSE copied

\* the caller's buffer before the call: destination_length pixels of 0xAA bytes
FreshDestination(destination_length) == [i \in 1..(destination_length * PixelSize) |-> 170]

\* ---- private helpers (the caller holds the mutex) -------------------------

\* reset_audio: the device, if there is one, paused and its queue cleared; the
\* sample buffer cleared
reset_audio ==
    /\ sdl_paused' = IF sdl_audio_device # 0 THEN TRUE ELSE sdl_paused
    /\ sdl_queued' = IF sdl_audio_device # 0 THEN 0 ELSE sdl_queued
    /\ sample_buffer' = <<>>

\* update_pixel_buffer_size: four blank buffers of the model's size, indices 0,
\* the engine pointed at the work slot
update_pixel_buffer_size(model) ==
    /\ pixel_buffer' = [i \in 0..(NumBuffers - 1) |->
                            BlankBuffer(get_pixel_buffer_size_without_mutex(model))]
    /\ work_buffer' = 0
    /\ previous_buffer' = 0
    /\ previous_buffer_second' = 0
    /\ gb_pixels_output' = 0

\* the rotation of on_vblank: the new <<work, previous, previous_second>>
RotateNoWrap(w, p) == <<w + 1, w, p>>
RotateNoShift(w, p) == <<(w + 1) % NumBuffers, p, p>>
Rotate(w, p) == <<(w + 1) % NumBuffers, w, p>>

\* GB_rewind_pop: <<popped, the history left, the engine state after it>>; an
\* entry is the engine state at the start of a frame, here the frame's colour
GB_rewind_pop(history, state) ==
    IF history # <<>>
    THEN <<TRUE, SubSeq(history, 1, Len(history) - 1), history[Len(history)]>>
    ELSE <<FALSE, history, state>>

\* instance->rewind_paused = instance->rewind_paused && instance->rewinding
RewindPauseKept(paused, held) == paused
RewindPauseRefreshed(paused, held) == paused /\ held

\* if(!GB_rewind_pop(&instance->gameboy)): the second pop found nothing
RewindExhaustedAlways(popped) == TRUE
RewindExhaustedNever(popped) == FALSE
RewindExhausted(popped) == ~popped

\* the three pause conditions of the loop, after the rewind pause was refreshed
PausedButManually(rp) == rp \/ pause_zero_speed
Paused(rp) == manual_paused \/ rp \/ pause_zero_speed

\* what the handshake returns once it may leave: termination first
InputReplyPendingFirst(finishing, text) == IF text # Null THEN text ELSE "continue"
InputReplyDefault(finishing, text) == "continue"
InputReply(finishing, text) == IF finishing THEN "continue" ELSE text

\* the handshake leaves its wait when the loop finishes or a command is pending
MayLeaveOnCommandOnly(finishing, text) == text # Null
MayLeave(finishing, text) == finishing \/ text # Null

\* this->mutex.lock() by t, once the mutex is free: what the mutex holds afterwards
lockNotTaken(t) == Null
lock(t) == t

\* instance->mutex.unlock() by the owner t: what the mutex holds afterwards
unlockKeepsOwner(t) == t
unlock(t) == Null

\* std::min(a, b), std::max(a, b)
Min(a, b) == IF b < a THEN b ELSE a
Max(a, b) == IF a < b THEN b ELSE a

\* std::min(100, std::max(0, volume))
ClampUpperOnly(v) == Min(MaxVolume, v)
Clamp(v) == Min(MaxVolume, Max(MinVolume, v))

\* destination.insert(destination.end(), sample_buffer.begin(), sample_buffer.end())
InsertAtFront(dest, samples) == samples \o dest
InsertAtEnd(dest, samples) == dest \o samples

\* sample_buffer.emplace_back(left); sample_buffer.emplace_back(right)
EmplaceBackSwapped(buffer, left, right) == Append(Append(buffer, right), left)
EmplaceBack(buffer, left, right) == Append(Append(buffer, left), right)

\* auto new_index = (fps_index + 1) % fps_buffer_size
NewIndexNoWrap(fps_index) == fps_index + 1
NewIndex(fps_index) == (fps_index + 1) % FrameTimes

\* std::size_t max_frames_queued = buffer_size * (turbo_mode ? 4 : 8)
MaxFramesQueuedSwapped(buffer_size, turbo_mode) == buffer_size * (IF turbo_mode THEN 8 ELSE 4)
MaxFramesQueued(buffer_size, turbo_mode) == buffer_size * (IF turbo_mode THEN 4 ELSE 8)

\* std::size_t required_buffered_frames = turbo_mode ? 0 :
\*     (frames_queued < buffer_size * 2 ? buffer_size * 4 : buffer_size)
RequiredBufferedFramesFlat(turbo_mode, frames_queued, buffer_size) ==
    IF turbo_mode THEN 0 ELSE buffer_size
RequiredBufferedFrames(turbo_mode, frames_queued, buffer_size) ==
    IF turbo_mode THEN 0
    ELSE IF frames_queued < buffer_size * 2 THEN buffer_size * 4 ELSE buffer_size

\* if(actual_buffered_frames >= required_buffered_frames)
TargetReachedLate(actual_buffered_frames, required_buffered_frames) ==
    actual_buffered_frames > required_buffered_frames
TargetReached(actual_buffered_frames, required_buffered_frames) ==
    actual_buffered_frames >= required_buffered_frames

\* if(result == 0)
LoadedAlways(r) == TRUE
Loaded(r) == r = 0

\* if(speed_multiplier < 0.001), in thousandths
BelowFloorOrAt(speed_multiplier) == speed_multiplier <= SpeedFloor
BelowFloor(speed_multiplier) == speed_multiplier < SpeedFloor

\* bnt = (--current_break_and_trace_remaining) > 0, for remaining > 0
StillTracingOffByOne(remaining) == remaining - 1 >= 0
StillTracing(remaining) == remaining - 1 > 0

\* the scan of get_breakpoints_without_mutex() for the program counter
HitsBreakpointNever(address, breakpoints) == FALSE
HitsBreakpoint(address, breakpoints) == address \in breakpoints

\* the first entry of break_and_trace_breakpoints at `address`: its index, or 0
FirstEntryAt(entries, address) ==
    IF \E i \in 1..Len(entries) : entries[i][1] = address
    THEN CHOOSE i \in 1..Len(entries) :
            /\ entries[i][1] = address
            /\ \A j \in 1..(i - 1) : entries[j][1] # address
    ELSE 0

\* entries.erase(b), b at index i
Erase(entries, i) == [j \in 1..(Len(entries) - 1) |-> IF j < i THEN entries[j] ELSE entries[j + 1]]

\* remove_breakpoint's loop: every entry at `address` erased
EraseAll(entries, address) == SelectSeq(entries, LAMBDA e : e[1] # address)

\* ---- initial state: a constructed GameInstance, no loop started ---------

\* The instance with no loop running, the screen cleared for `model`, the
\* engine about to render a frame of `colour`, and the rewind input and the
\* rewind pause both `rw`: FALSE after construction, TRUE where an earlier run
\* ran out of rewind history with the input still held.
Stopped(model, colour, rw) ==
    /\ gb_model = model
    /\ pixel_buffer = [i \in 0..(NumBuffers - 1) |->
                          BlankBuffer(get_pixel_buffer_size_without_mutex(model))]
    /\ work_buffer = 0
    /\ previous_buffer = 0
    /\ previous_buffer_second = 0
    /\ gb_pixels_output = 0
    /\ pixel_buffer_mode = "PixelBufferSingle"
    /\ vblank_hit = FALSE
    /\ manual_paused = FALSE
    /\ rewind_paused = rw
    /\ pause_zero_speed = FALSE
    /\ rewinding = rw
    /\ should_rewind = FALSE
    /\ bp_paused = FALSE
    /\ loop_running = FALSE
    /\ loop_finishing = FALSE
    /\ continue_text = Null
    /\ mutex = Null
    /\ gb_scan = 0
    /\ gb_colour = colour
    /\ gb_rewind = <<>>
    /\ gb_rewind_length = 0
    /\ reply = Null
    /\ gb_clock_multiplier = 1000
    /\ pc = [t \in Threads |-> "idle"]
    /\ starts = 0
    /\ command = [c \in Callers |-> Null]
    /\ destination = <<>>
    /\ success = FALSE

\* the debugger after construction: no breakpoint, no session, the program
\* counter at the entry point
NoTrace ==
    /\ current_break_and_trace_remaining = 0
    /\ current_break_and_trace_step_over = FALSE
    /\ break_and_trace_breakpoints = <<>>
    /\ break_and_trace_result = <<>>
    /\ gb_pc = 0
    /\ gb_breakpoints = {}
    /\ gb_stopped = FALSE
    /\ gb_stepping = FALSE
    /\ session_steps = 0

\* audio after construction: full volume, nothing buffered
NoAudio ==
    /\ volume = 100
    /\ sample_buffer = <<>>
    /\ sample_destination = <<>>
    /\ returned = <<Null, Null>>

\* no ROM loaded
NoRom ==
    /\ rom_loaded = FALSE
    /\ gb_rom = Null
    /\ gb_battery = Null
    /\ gb_symbols = Null
    /\ result = 0

\* nobody inside read_pixel_buffer
\* instance->rapid_button_frames = (rapid_button_frames + 1) % rapid_button_switch_frames
RapidButtonFramesLate(frames, switch_frames) == (frames + 1) % (switch_frames + 1)
RapidButtonFrames(frames, switch_frames) == (frames + 1) % switch_frames

\* for(auto i : instance->rapid_buttons) GB_set_key_state(gameboy, i, state)
SetRapidKeys(keys, buttons, state) ==
    [k \in DOMAIN keys |->
        IF \E q \in 1..Len(buttons) : buttons[q] = k THEN state ELSE keys[k]]

\* "Handle rapid fire buttons": count the frame and, on the nth, switch the
\* phase and set every registered button's key to it
RapidFire ==
    LET frames == RapidButtonFrames(rapid_button_frames, rapid_button_switch_frames)
    IN  /\ rapid_button_frames' = frames
        /\ IF frames = 0
           THEN /\ rapid_button_state' = ~rapid_button_state
                /\ gb_keys' = SetRapidKeys(gb_keys, rapid_buttons, ~rapid_button_state)
                /\ flip_age' = 0
           ELSE /\ flip_age' = flip_age + 1
                /\ UNCHANGED <<rapid_button_state, gb_keys>>
        /\ UNCHANGED <<rapid_buttons, rapid_button_switch_frames>>

\* on_vblank, the rapid-fire buttons included
on_vblank_rapid(t) ==
    /\ pc[t] = "gb_run"
    /\ gb_scan = VectorSize(pixel_buffer[gb_pixels_output])
    /\ LET r == Rotate(work_buffer, previous_buffer)
       IN  /\ work_buffer' = r[1]
           /\ previous_buffer' = r[2]
           /\ previous_buffer_second' = r[3]
           /\ gb_pixels_output' = r[1]
    /\ RapidFire
    /\ vblank_hit' = TRUE
    /\ should_rewind' = rewinding
    /\ gb_scan' = 0
    /\ gb_colour' \in Colours
    /\ vblanks' = Min(vblanks + 1, 2)
    /\ UNCHANGED <<restVars, pixel_buffer, pixel_buffer_mode, gb_model,
                   manual_paused, rewind_paused, pause_zero_speed, rewinding,
                   gb_rewind, gb_clock_multiplier, gb_rewind_length, breakVars, loopVars, readVars,
                   source_slot, frameVars, deviceVars, queueVars, sample_handled,
                   delivered>>

\* set_button_state: GB_set_key_state(button, pressed)
set_button_state(c, button, pressed) ==
    /\ pc[c] = "idle"
    /\ mutex = Null
    /\ gb_keys' = [gb_keys EXCEPT ![button] = pressed]
    /\ UNCHANGED <<videoVars, pauseVars, breakVars, loopVars, readVars, restVars,
                   source_slot, frameVars, deviceVars, queueVars, sample_handled,
                   rapid_buttons, rapid_button_state, rapid_button_frames,
                   rapid_button_switch_frames, flip_age, vblanks, delivered>>

\* set_rapid_button_state: a pressed button is registered unless it is already,
\* a released one is erased where it is found; the key is set to the current
\* phase on a press and released otherwise
set_rapid_button_state(c, button, pressed) ==
    /\ pc[c] = "idle"
    /\ mutex = Null
    /\ LET q     == FirstEntryAt([j \in 1..Len(rapid_buttons) |-> <<rapid_buttons[j]>>], button)
           found == q > 0
       IN  rapid_buttons' = IF found /\ ~pressed THEN Erase(rapid_buttons, q)
                            ELSE IF ~found /\ pressed THEN Append(rapid_buttons, button)
                            ELSE rapid_buttons
    /\ gb_keys' = [gb_keys EXCEPT ![button] = IF pressed THEN rapid_button_state ELSE FALSE]
    /\ UNCHANGED <<videoVars, pauseVars, breakVars, loopVars, readVars, restVars,
                   source_slot, frameVars, deviceVars, queueVars, sample_handled,
                   rapid_button_state, rapid_button_frames,
                   rapid_button_switch_frames, flip_age, vblanks, delivered>>

NoReader ==
    source_slot = [c \in Callers |-> Null]

\* float frame_rate = 0.0; std::size_t frame_time_index = 0
NoFrames ==
    /\ frame_time_index = 0
    /\ frame_rate = 0

\* bool audio_enabled = false; no device opened; turbo mode off
NoDevice ==
    /\ audio_enabled = FALSE
    /\ sdl_audio_device = 0
    /\ sdl_audio_buffer_size = 0
    /\ turbo_mode_enabled = FALSE
    /\ sdl_queued = 0
    /\ sdl_paused = TRUE
    /\ sample_handled = Null

\* no button registered, no key held, the phase off; the switch period is n
NoRapidButtons(n) ==
    /\ rapid_buttons = <<>>
    /\ rapid_button_state = FALSE
    /\ rapid_button_frames = 0
    /\ rapid_button_switch_frames = n
    /\ gb_keys = [k \in Keys |-> FALSE]
    /\ flip_age = 0

\* no vblank yet, no sample delivered
NoHistory ==
    /\ vblanks = 0
    /\ delivered = <<>>

\* after the constructor
Init ==
    /\ \E model \in Models, colour \in Colours : Stopped(model, colour, FALSE)
    /\ NoTrace /\ NoAudio /\ NoRom
    /\ NoReader /\ NoFrames /\ NoDevice /\ NoRapidButtons(1) /\ NoHistory

\* ---- the driver thread: start_game_loop ---------------------------------

\* if(instance->loop_running) std::terminate(); which ends every thread
StartGameLoop(t) ==
    /\ pc[t] = "idle"
    /\ starts < MaxStarts
    /\ starts' = starts + 1
    /\ pc' = IF loop_running THEN [u \in Threads |-> "terminated"]
             ELSE [pc EXCEPT ![t] = "sgl_set"]
    /\ UNCHANGED <<restVars, videoVars, pauseVars, breakVars, readVars, extVars,
                   loop_running, loop_finishing, mutex, command>>

\* instance->loop_running = true;
SetLoopRunning(t) ==
    /\ pc[t] = "sgl_set"
    /\ loop_running' = TRUE
    /\ pc' = [pc EXCEPT ![t] = "sgl_spin"]
    /\ UNCHANGED <<restVars, videoVars, pauseVars, breakVars, readVars, extVars,
                   loop_finishing, mutex, starts, command>>

\* One successful try_lock and the head of the iteration: refresh the rewind
\* pause, then either process a latched rewind and enter GB_run with the mutex
\* held, or unlock and go to sleep.
Iterate(t) ==
    /\ pc[t] = "sgl_spin"
    /\ mutex = Null
    /\ LET rp    == RewindPauseRefreshed(rewind_paused, rewinding)
           pop1  == GB_rewind_pop(gb_rewind, gb_colour)
           pop2  == GB_rewind_pop(pop1[2], pop1[3])
       IN  IF ~Paused(rp)
           THEN /\ rewind_paused' = IF should_rewind /\ RewindExhausted(pop2[1])
                                    THEN TRUE ELSE rp
                /\ gb_rewind' = IF should_rewind THEN pop2[2] ELSE gb_rewind
                /\ gb_colour' = IF should_rewind THEN pop2[3] ELSE gb_colour
                /\ gb_scan' = IF should_rewind /\ pop1[1] THEN 0 ELSE gb_scan
                /\ should_rewind' = FALSE
                /\ mutex' = t
                /\ pc' = [pc EXCEPT ![t] = "gb_run"]
           ELSE /\ rewind_paused' = rp
                /\ mutex' = Null
                /\ pc' = [pc EXCEPT ![t] = "sgl_sleep"]
                /\ UNCHANGED <<gb_rewind, gb_colour, gb_scan, should_rewind>>
    /\ UNCHANGED <<restVars, breakVars, readVars, extVars, manual_paused, pause_zero_speed,
                   rewinding, vblank_hit, gb_clock_multiplier, gb_rewind_length,
                   pixel_buffer, work_buffer, previous_buffer, previous_buffer_second,
                   pixel_buffer_mode, gb_model, gb_pixels_output,
                   loop_running, loop_finishing, starts, command>>

\* the position of the driver after the "are we getting done?" test and the
\* unlock that follows it on both branches
AfterIteration == IF loop_finishing THEN "sgl_exit" ELSE "sgl_spin"

\* GB_run returns: the engine has saved a rewind entry for a finished frame, the
\* loop accounts the frame, tests loop_finishing and unlocks.  The frame times
\* are left as they are here: the loop writes them and nothing of this step or
\* of any other reads them; GbRunReturnTimed is this step with them.
GbRunReturn(t) ==
    /\ pc[t] = "gb_run"
    /\ mutex = t
    /\ gb_rewind' = IF vblank_hit /\ Len(gb_rewind) < gb_rewind_length
                    THEN Append(gb_rewind, gb_colour) ELSE gb_rewind
    /\ vblank_hit' = FALSE
    /\ mutex' = Null
    /\ pc' = [pc EXCEPT ![t] = AfterIteration]
    /\ UNCHANGED <<restVars, videoVars, breakVars, readVars, extVars, manual_paused, rewind_paused,
                   pause_zero_speed, rewinding, should_rewind, gb_clock_multiplier, gb_rewind_length,
                   loop_running, loop_finishing, starts, command>>

\* if(instance->vblank_hit): the interval stored at the cursor, the cursor
\* advanced, the frame rate computed from the thirty intervals when the cursor
\* is back at 0
FrameAccounting ==
    IF vblank_hit
    THEN /\ frame_time_index' = NewIndex(frame_time_index)
         /\ frame_rate' = IF NewIndex(frame_time_index) = 0
                          THEN (frame_rate + 1) % 2 ELSE frame_rate
    ELSE UNCHANGED frameVars

\* GB_run returns, the frame times included
GbRunReturnTimed(t) ==
    /\ pc[t] = "gb_run"
    /\ mutex = t
    /\ gb_rewind' = IF vblank_hit /\ Len(gb_rewind) < gb_rewind_length
                    THEN Append(gb_rewind, gb_colour) ELSE gb_rewind
    /\ FrameAccounting
    /\ vblank_hit' = FALSE
    /\ mutex' = Null
    /\ pc' = [pc EXCEPT ![t] = AfterIteration]
    /\ UNCHANGED <<restVars, videoVars, breakVars, readVars, lateVars,
                   source_slot, deviceVars, queueVars, sample_handled,
                   manual_paused, rewind_paused,
                   pause_zero_speed, rewinding, should_rewind, gb_clock_multiplier, gb_rewind_length,
                   loop_running, loop_finishing, starts, command>>

\* the paused branch after its sleep: lock, test loop_finishing, unlock
Wake(t) ==
    /\ pc[t] = "sgl_sleep"
    /\ mutex = Null
    /\ pc' = [pc EXCEPT ![t] = AfterIteration]
    /\ UNCHANGED <<restVars, videoVars, pauseVars, breakVars, readVars, extVars,
                   loop_running, loop_finishing, mutex, starts, command>>

\* instance->loop_running = false; and start_game_loop returns
LoopExit(t) ==
    /\ pc[t] = "sgl_exit"
    /\ loop_running' = FALSE
    /\ pc' = [pc EXCEPT ![t] = "idle"]
    /\ UNCHANGED <<restVars, videoVars, pauseVars, breakVars, readVars, extVars,
                   loop_finishing, mutex, starts, command>>

\* ---- the engine inside GB_run, on the driver thread ---------------------

\* the engine renders the next pixel of the frame through its output pointer
GbRenderPixel(t) ==
    /\ pc[t] = "gb_run"
    /\ gb_scan < VectorSize(pixel_buffer[gb_pixels_output])
    /\ pixel_buffer' = [pixel_buffer EXCEPT ![gb_pixels_output] =
          [i \in 1..Len(@) |->
              IF (i - 1) \div PixelSize = gb_scan
              THEN rgb_encode(gb_colour[1], gb_colour[2], gb_colour[3])[((i - 1) % PixelSize) + 1]
              ELSE @[i]]]
    /\ gb_scan' = gb_scan + 1
    /\ UNCHANGED <<restVars, work_buffer, previous_buffer, previous_buffer_second,
                   pixel_buffer_mode, gb_model, gb_pixels_output, gb_colour,
                   pauseVars, breakVars, loopVars, readVars, extVars>>

\* on_vblank, called by the engine when the frame is complete.  The
\* rapid-fire buttons are left as they are here: on_vblank and
\* set_rapid_button_state write them and nothing else reads them;
\* on_vblank_rapid is this step with them.
on_vblank(t) ==
    /\ pc[t] = "gb_run"
    /\ gb_scan = VectorSize(pixel_buffer[gb_pixels_output])
    /\ LET r == Rotate(work_buffer, previous_buffer)
       IN  /\ work_buffer' = r[1]
           /\ previous_buffer' = r[2]
           /\ previous_buffer_second' = r[3]
           /\ gb_pixels_output' = r[1]
    /\ vblank_hit' = TRUE
    /\ should_rewind' = rewinding
    /\ gb_scan' = 0
    /\ gb_colour' \in Colours
    /\ vblanks' = Min(vblanks + 1, 2)
    /\ UNCHANGED <<restVars, pixel_buffer, pixel_buffer_mode, gb_model,
                   manual_paused, rewind_paused, pause_zero_speed, rewinding,
                   gb_rewind, gb_clock_multiplier, gb_rewind_length, breakVars, loopVars, readVars,
                   source_slot, frameVars, deviceVars, queueVars, sample_handled,
                   keyVars, delivered>>

\* on_sample, called by the engine with a sample pair, at full volume and
\* without forced mono (the pair is stored as passed).  Nothing is done with
\* audio disabled.  With a device: an overrun flushes (reset_audio) outside
\* turbo mode and drops the pair in turbo mode; otherwise the pair is appended
\* and the buffer queued on the device, cleared and the device unpaused once it
\* holds the required frames.  Without a device the pair is appended.
on_sample(t, left, right) ==
    /\ pc[t] = "gb_run"
    /\ mutex = t
    /\ volume = MaxVolume
    /\ LET frames_queued == sdl_queued
           buffer_size   == sdl_audio_buffer_size
           turbo_mode    == turbo_mode_enabled
           appended      == EmplaceBack(sample_buffer, left, right)
           required_buffered_frames ==
               RequiredBufferedFrames(turbo_mode, frames_queued, buffer_size)
           actual_buffered_frames == Len(appended) \div 2
       IN  IF ~audio_enabled
           THEN /\ sample_handled' = "disabled"
                /\ UNCHANGED <<sample_buffer, queueVars>>
           ELSE IF sdl_audio_device = 0
           THEN /\ sample_buffer' = appended
                /\ sample_handled' = "stored"
                /\ UNCHANGED queueVars
           ELSE IF frames_queued > MaxFramesQueued(buffer_size, turbo_mode)
           THEN IF ~turbo_mode
                THEN /\ reset_audio
                     /\ sample_handled' = "flushed"
                ELSE /\ sample_handled' = "dropped"
                     /\ UNCHANGED <<sample_buffer, queueVars>>
           ELSE IF TargetReached(actual_buffered_frames, required_buffered_frames)
           THEN /\ sdl_queued' = sdl_queued + actual_buffered_frames
                /\ sample_buffer' = <<>>
                /\ sdl_paused' = FALSE
                /\ sample_handled' = "sent"
           ELSE /\ sample_buffer' = appended
                /\ sample_handled' = "stored"
                /\ UNCHANGED queueVars
    /\ delivered' = IF sdl_audio_device = 0
                    THEN Append(Append(delivered, left), right) ELSE delivered
    /\ UNCHANGED <<videoVars, pauseVars, breakVars, loopVars, readVars, keyVars, vblanks, traceVars, romVars,
                   source_slot, frameVars, deviceVars,
                   volume, sample_destination, returned>>

\* on_input_requested up to its wait.  reset_audio; then the break-and-trace
\* decision: a running session goes on unless its steps are used up or the
\* program counter is in the breakpoint list; otherwise an entry registered at
\* the program counter starts a session and is removed with its breakpoint.
\* With a session the snapshot is recorded and "step"/"next" returned at once,
\* the mutex kept; without one the driver marks the pause and unlocks.
on_input_requested(t) ==
    /\ pc[t] = "gb_run"
    /\ mutex = t
    /\ LET remaining == current_break_and_trace_remaining
           going     == /\ remaining > 0
                        /\ StillTracing(remaining)
                        /\ ~HitsBreakpoint(gb_pc, gb_breakpoints)
           i         == IF going THEN 0
                        ELSE FirstEntryAt(break_and_trace_breakpoints, gb_pc)
           bnt       == going \/ i > 0
       IN  /\ reset_audio
           /\ IF i > 0
              THEN /\ current_break_and_trace_remaining' = break_and_trace_breakpoints[i][2]
                   /\ session_steps' = break_and_trace_breakpoints[i][2]
                   /\ current_break_and_trace_step_over' = break_and_trace_breakpoints[i][3]
                   /\ gb_breakpoints' = gb_breakpoints \ {gb_pc}
                   /\ break_and_trace_breakpoints' = Erase(break_and_trace_breakpoints, i)
              ELSE /\ current_break_and_trace_remaining' =
                         IF remaining > 0 THEN remaining - 1 ELSE remaining
                   /\ UNCHANGED <<current_break_and_trace_step_over, gb_breakpoints,
                                  break_and_trace_breakpoints, session_steps>>
           /\ IF bnt
              THEN /\ break_and_trace_result' =
                         Append(IF i > 0 THEN <<>> ELSE break_and_trace_result, gb_pc)
                   /\ reply' = IF current_break_and_trace_step_over' THEN "next" ELSE "step"
                   /\ UNCHANGED <<bp_paused, mutex, pc>>
              ELSE /\ bp_paused' = TRUE
                   /\ mutex' = unlock(t)
                   /\ pc' = [pc EXCEPT ![t] = "hs_wait"]
                   /\ UNCHANGED <<break_and_trace_result, reply>>
    /\ UNCHANGED <<videoVars, pauseVars, readVars, lateVars, source_slot, frameVars, deviceVars, sample_handled, romVars, continue_text,
                   gb_pc, gb_stopped, gb_stepping, volume, sample_destination, returned,
                   loop_running, loop_finishing, starts, command>>

\* one round of the wait loop that finds a reason to leave: lock, test
\* loop_finishing, then continue_text, and break with the reply in the local
\* continue_text, the mutex held.  (A round that finds neither unlocks again
\* and changes nothing.)
InputDecide(t) ==
    /\ pc[t] = "hs_wait"
    /\ mutex = Null
    /\ MayLeave(loop_finishing, continue_text)
    /\ reply' = InputReply(loop_finishing, continue_text)
    /\ mutex' = t
    /\ pc' = [pc EXCEPT ![t] = "hs_leave"]
    /\ UNCHANGED <<restVars, videoVars, pauseVars, readVars, extVars, bp_paused, continue_text,
                   loop_running, loop_finishing, starts, command>>

\* instance->continue_text = std::nullopt; return continue_text;
InputReturn(t) ==
    /\ pc[t] = "hs_leave"
    /\ continue_text' = Null
    /\ pc' = [pc EXCEPT ![t] = "gb_run"]
    /\ UNCHANGED <<restVars, videoVars, pauseVars, readVars, extVars, bp_paused, reply,
                   loop_running, loop_finishing, mutex, starts, command>>

\* ---- public operations, on the caller threads ---------------------------

\* read_pixel_buffer(destination, destination_length), lock to unlock
read_pixel_buffer(c, destination_length) ==
    /\ pc[c] = "idle"
    /\ mutex = Null
    /\ destination' = ReadPixels(FreshDestination(destination_length), destination_length)
    /\ success' = LengthMatches(destination_length)
    /\ UNCHANGED <<restVars, videoVars, pauseVars, breakVars, loopVars, extVars>>

\* read_pixel_buffer step by step.  lock, required_length and success:
ReadLock(c, destination_length) ==
    /\ pc[c] = "idle"
    /\ mutex = Null
    /\ mutex' = lock(c)
    /\ command' = [command EXCEPT ![c] = destination_length]
    /\ destination' = FreshDestination(destination_length)
    /\ success' = LengthMatches(destination_length)
    /\ pc' = [pc EXCEPT ![c] = IF LengthMatches(destination_length)
                                THEN "rpb_choose" ELSE "rpb_unlock"]
    /\ UNCHANGED <<restVars, videoVars, pauseVars, breakVars, extVars,
                   loop_running, loop_finishing, starts>>

\* the switch on pixel_buffer_mode and pixel_buffer[index].data(): the source
\* the memcpy is handed
ReadChoose(c) ==
    /\ pc[c] = "rpb_choose"
    /\ source_slot' = [source_slot EXCEPT ![c] = SourceSlot(pixel_buffer_mode)]
    /\ pc' = [pc EXCEPT ![c] = "rpb_copy"]
    /\ UNCHANGED <<restVars, videoVars, pauseVars, breakVars, readVars, lateVars,
                   frameVars, deviceVars, sample_handled, queueVars,
                   loop_running, loop_finishing, mutex, starts, command>>

\* std::memcpy from that source, and the blend in DoubleBlend mode
ReadCopy(c) ==
    /\ pc[c] = "rpb_copy"
    /\ LET bytes  == VectorSize(pixel_buffer[0]) * PixelSize
           copied == memcpy(destination, pixel_buffer[source_slot[c]], bytes)
       IN  destination' = IF pixel_buffer_mode = "PixelBufferDoubleBlend"
                          THEN Blend(copied, pixel_buffer[previous_buffer_second], bytes)
                          ELSE copied
    /\ pc' = [pc EXCEPT ![c] = "rpb_unlock"]
    /\ UNCHANGED <<restVars, videoVars, pauseVars, breakVars, extVars, success,
                   loop_running, loop_finishing, mutex, starts, command>>

\* unlock; return success
ReadUnlock(c) ==
    /\ pc[c] = "rpb_unlock"
    /\ mutex' = Null
    /\ source_slot' = [source_slot EXCEPT ![c] = Null]
    /\ command' = [command EXCEPT ![c] = Null]
    /\ pc' = [pc EXCEPT ![c] = "idle"]
    /\ UNCHANGED <<restVars, videoVars, pauseVars, breakVars, readVars, lateVars,
                   frameVars, deviceVars, sample_handled, queueVars,
                   loop_running, loop_finishing, starts>>

\* set_model: GB_switch_model_and_reset, reset_audio, update_pixel_buffer_size
set_model(c, model) ==
    /\ pc[c] = "idle"
    /\ mutex = Null
    /\ gb_model' = model
    /\ gb_scan' = 0
    /\ gb_colour' \in Colours
    /\ reset_audio
    /\ update_pixel_buffer_size(model)
    /\ vblanks' = 0
    /\ UNCHANGED <<traceVars, romVars, volume, sample_destination, returned,
                   pixel_buffer_mode, pauseVars, breakVars, loopVars, readVars, keyVars, delivered, source_slot, frameVars, deviceVars, sample_handled>>

\* set_pixel_buffering_mode
set_pixel_buffering_mode(c, mode) ==
    /\ pc[c] = "idle"
    /\ mutex = Null
    /\ pixel_buffer_mode' = mode
    /\ UNCHANGED <<restVars, pixel_buffer, work_buffer, previous_buffer, previous_buffer_second,
                   gb_model, gb_pixels_output, gb_scan, gb_colour,
                   pauseVars, breakVars, loopVars, readVars, extVars>>

\* set_paused_manually
set_paused_manually(c, paused) ==
    /\ pc[c] = "idle"
    /\ mutex = Null
    /\ manual_paused' = paused
    /\ UNCHANGED <<restVars, videoVars, breakVars, loopVars, readVars, extVars, rewind_paused,
                   pause_zero_speed, rewinding, should_rewind, vblank_hit,
                   gb_rewind, gb_clock_multiplier, gb_rewind_length>>

\* set_rewind
set_rewind(c, r) ==
    /\ pc[c] = "idle"
    /\ mutex = Null
    /\ rewinding' = r
    /\ UNCHANGED <<restVars, videoVars, breakVars, loopVars, readVars, extVars, manual_paused,
                   rewind_paused, pause_zero_speed, should_rewind, vblank_hit,
                   gb_rewind, gb_clock_multiplier, gb_rewind_length>>

\* set_rewind_length: GB_set_rewind_length, which drops the history
set_rewind_length(c, entries) ==
    /\ pc[c] = "idle"
    /\ mutex = Null
    /\ gb_rewind_length' = entries
    /\ gb_rewind' = <<>>
    /\ UNCHANGED <<restVars, videoVars, breakVars, loopVars, readVars, extVars, manual_paused,
                   rewind_paused, pause_zero_speed, rewinding, should_rewind, vblank_hit,
                   gb_clock_multiplier>>

\* set_speed_multiplier, the multiplier in thousandths
set_speed_multiplier(c, speed_multiplier) ==
    /\ pc[c] = "idle"
    /\ mutex = Null
    /\ pause_zero_speed' = BelowFloor(speed_multiplier)
    /\ gb_clock_multiplier' = IF BelowFloor(speed_multiplier) THEN SpeedFloor
                              ELSE speed_multiplier
    /\ UNCHANGED <<restVars, videoVars, breakVars, loopVars, readVars, extVars, manual_paused,
                   rewind_paused, rewinding, should_rewind, vblank_hit, gb_rewind,
                   gb_rewind_length>>

\* unbreak, first half: if(this->is_paused_from_breakpoint()), an atomic load
\* made before the mutex is taken.  (When the flag is false unbreak returns.)
UnbreakCheck(c, cmd) ==
    /\ pc[c] = "idle"
    /\ bp_paused
    /\ pc' = [pc EXCEPT ![c] = "ub_lock"]
    /\ command' = [command EXCEPT ![c] = cmd]
    /\ UNCHANGED <<restVars, videoVars, pauseVars, breakVars, readVars, extVars,
                   loop_running, loop_finishing, mutex, starts>>

\* unbreak, second half: lock; continue_text = command; bp_paused = false; unlock
UnbreakApply(c) ==
    /\ pc[c] = "ub_lock"
    /\ mutex = Null
    /\ continue_text' = command[c]
    /\ bp_paused' = FALSE
    /\ pc' = [pc EXCEPT ![c] = "idle"]
    /\ command' = [command EXCEPT ![c] = Null]
    /\ UNCHANGED <<restVars, videoVars, pauseVars, readVars, extVars, reply,
                   loop_running, loop_finishing, mutex, starts>>

\* end_game_loop, first critical section.  (When loop_finishing is already
\* set it unlocks and returns.)
EndGameLoopBegin(c) ==
    /\ pc[c] = "idle"
    /\ mutex = Null
    /\ ~loop_finishing
    /\ loop_finishing' = TRUE
    /\ pc' = [pc EXCEPT ![c] = "egl_wait"]
    /\ UNCHANGED <<restVars, videoVars, pauseVars, breakVars, readVars, extVars,
                   loop_running, mutex, starts, command>>

\* end_game_loop: the poll of loop_running, outside the mutex, that ends the wait
EndGameLoopWait(c) ==
    /\ pc[c] = "egl_wait"
    /\ ~loop_running
    /\ pc' = [pc EXCEPT ![c] = "egl_lock"]
    /\ UNCHANGED <<restVars, videoVars, pauseVars, breakVars, readVars, extVars,
                   loop_running, loop_finishing, mutex, starts, command>>

\* end_game_loop, second critical section: loop_finishing = false; return
EndGameLoopEnd(c) ==
    /\ pc[c] = "egl_lock"
    /\ mutex = Null
    /\ loop_finishing' = FALSE
    /\ pc' = [pc EXCEPT ![c] = "idle"]
    /\ UNCHANGED <<restVars, videoVars, pauseVars, breakVars, readVars, extVars,
                   loop_running, mutex, starts, command>>

\* evaluate_expression: GB_debugger_evaluate reads the engine, no lock taken
EvaluateBegin(c) ==
    /\ pc[c] = "idle"
    /\ pc' = [pc EXCEPT ![c] = "ee_eval"]
    /\ UNCHANGED <<restVars, videoVars, pauseVars, breakVars, readVars, extVars,
                   loop_running, loop_finishing, mutex, starts, command>>

EvaluateEnd(c) ==
    /\ pc[c] = "ee_eval"
    /\ pc' = [pc EXCEPT ![c] = "idle"]
    /\ UNCHANGED <<restVars, videoVars, pauseVars, breakVars, readVars, extVars,
                   loop_running, loop_finishing, mutex, starts, command>>

\* remove_breakpoint between lock and unlock: "delete $address" and the entries
\* at the address erased
RemoveBreakpoint(address) ==
    /\ gb_breakpoints' = gb_breakpoints \ {address}
    /\ break_and_trace_breakpoints' = EraseAll(break_and_trace_breakpoints, address)

\* remove_breakpoint
remove_breakpoint(c, address) ==
    /\ pc[c] = "idle"
    /\ mutex = Null
    /\ RemoveBreakpoint(address)
    /\ UNCHANGED <<videoVars, pauseVars, breakVars, loopVars, readVars, extVars, audioVars, romVars,
                   current_break_and_trace_remaining, current_break_and_trace_step_over,
                   break_and_trace_result, gb_pc, gb_stopped, gb_stepping, session_steps>>

\* remove_all_breakpoints: "delete" and the list cleared
remove_all_breakpoints(c) ==
    /\ pc[c] = "idle"
    /\ mutex = Null
    /\ gb_breakpoints' = {}
    /\ break_and_trace_breakpoints' = <<>>
    /\ UNCHANGED <<videoVars, pauseVars, breakVars, loopVars, readVars, extVars, audioVars, romVars,
                   current_break_and_trace_remaining, current_break_and_trace_step_over,
                   break_and_trace_result, gb_pc, gb_stopped, gb_stepping, session_steps>>

\* break_at: "breakpoint $address"
break_at(c, address) ==
    /\ pc[c] = "idle"
    /\ mutex = Null
    /\ gb_breakpoints' = gb_breakpoints \cup {address}
    /\ UNCHANGED <<videoVars, pauseVars, breakVars, loopVars, readVars, extVars, audioVars, romVars,
                   current_break_and_trace_remaining, current_break_and_trace_step_over,
                   break_and_trace_breakpoints, break_and_trace_result,
                   gb_pc, gb_stopped, gb_stepping, session_steps>>

\* break_and_trace_at, first critical section: this->remove_breakpoint(address)
break_and_trace_at(c, address, n, over) ==
    /\ pc[c] = "idle"
    /\ mutex = Null
    /\ RemoveBreakpoint(address)
    /\ command' = [command EXCEPT ![c] = <<address, n, over>>]
    /\ pc' = [pc EXCEPT ![c] = "bat_add"]
    /\ UNCHANGED <<videoVars, pauseVars, breakVars, readVars, extVars, audioVars, romVars,
                   loop_running, loop_finishing, mutex, starts,
                   current_break_and_trace_remaining, current_break_and_trace_step_over,
                   break_and_trace_result, gb_pc, gb_stopped, gb_stepping, session_steps>>

\* break_and_trace_at, second critical section: the entry appended and
\* "breakpoint $address"
BreakAndTraceAdd(c) ==
    /\ pc[c] = "bat_add"
    /\ mutex = Null
    /\ Len(break_and_trace_breakpoints) < MaxEntries
    /\ break_and_trace_breakpoints' = Append(break_and_trace_breakpoints, command[c])
    /\ gb_breakpoints' = gb_breakpoints \cup {command[c][1]}
    /\ command' = [command EXCEPT ![c] = Null]
    /\ pc' = [pc EXCEPT ![c] = "idle"]
    /\ UNCHANGED <<videoVars, pauseVars, breakVars, readVars, extVars, audioVars, romVars,
                   loop_running, loop_finishing, mutex, starts,
                   current_break_and_trace_remaining, current_break_and_trace_step_over,
                   break_and_trace_result, gb_pc, gb_stopped, gb_stepping, session_steps>>

\* set_audio_enabled: the buffer cleared, reset_audio, the flag written (the
\* sample rate is left out)
set_audio_enabled(c, enabled) ==
    /\ pc[c] = "idle"
    /\ mutex = Null
    /\ reset_audio
    /\ audio_enabled' = enabled
    /\ UNCHANGED <<videoVars, pauseVars, breakVars, loopVars, readVars, lateVars, traceVars, romVars,
                   source_slot, frameVars, sample_handled,
                   sdl_audio_device, sdl_audio_buffer_size, turbo_mode_enabled,
                   volume, sample_destination, returned>>

\* set_up_sdl_audio with SDL_OpenAudioDevice returning device (0: failure) and
\* result.samples = samples: on success the old device is closed and the new
\* one, opened paused with an empty queue, takes its place
set_up_sdl_audio(c, device, samples) ==
    /\ pc[c] = "idle"
    /\ mutex = Null
    /\ IF device # 0
       THEN /\ sdl_audio_device' = device
            /\ sdl_audio_buffer_size' = samples
            /\ sdl_queued' = 0
            /\ sdl_paused' = TRUE
       ELSE UNCHANGED <<sdl_audio_device, sdl_audio_buffer_size, queueVars>>
    /\ UNCHANGED <<videoVars, pauseVars, breakVars, loopVars, readVars, lateVars, restVars,
                   source_slot, frameVars, sample_handled,
                   audio_enabled, turbo_mode_enabled>>

\* set_turbo_mode (the limiter's ratio is left out)
set_turbo_mode(c, turbo) ==
    /\ pc[c] = "idle"
    /\ mutex = Null
    /\ turbo_mode_enabled' = turbo
    /\ UNCHANGED <<videoVars, pauseVars, breakVars, loopVars, readVars, lateVars, restVars,
                   source_slot, frameVars, sample_handled, queueVars,
                   audio_enabled, sdl_audio_device, sdl_audio_buffer_size>>

\* the audio device plays one queued frame, on its own thread
SdlPlay ==
    /\ sdl_audio_device # 0
    /\ ~sdl_paused
    /\ sdl_queued > 0
    /\ sdl_queued' = sdl_queued - 1
    /\ UNCHANGED <<videoVars, pauseVars, breakVars, loopVars, readVars, lateVars, restVars,
                   source_slot, frameVars, deviceVars, sample_handled, sdl_paused>>

\* set_volume (volume_scale, a function of volume alone, is left out)
set_volume(c, v) ==
    /\ pc[c] = "idle"
    /\ mutex = Null
    /\ volume' = Clamp(v)
    /\ UNCHANGED <<videoVars, pauseVars, breakVars, loopVars, readVars, extVars, traceVars, romVars,
                   sample_buffer, sample_destination, returned>>

\* get_volume
get_volume(c) ==
    /\ pc[c] = "idle"
    /\ mutex = Null
    /\ returned' = <<"get_volume", volume>>
    /\ UNCHANGED <<videoVars, pauseVars, breakVars, loopVars, readVars, extVars, traceVars, romVars,
                   volume, sample_buffer, sample_destination>>

\* get_sample_buffer: the buffer moved out and cleared
get_sample_buffer(c) ==
    /\ pc[c] = "idle"
    /\ mutex = Null
    /\ returned' = <<"get_sample_buffer", sample_buffer>>
    /\ sample_buffer' = <<>>
    /\ delivered' = <<>>
    /\ UNCHANGED <<videoVars, pauseVars, breakVars, loopVars, readVars, traceVars, romVars,
                   source_slot, frameVars, deviceVars, queueVars, sample_handled, keyVars, vblanks,
                   volume, sample_destination>>

\* transfer_sample_buffer(destination), the caller's vector holding `dest`
transfer_sample_buffer(c, dest) ==
    /\ pc[c] = "idle"
    /\ mutex = Null
    /\ sample_destination' = InsertAtEnd(dest, sample_buffer)
    /\ sample_buffer' = <<>>
    /\ delivered' = <<>>
    /\ UNCHANGED <<videoVars, pauseVars, breakVars, loopVars, readVars, traceVars, romVars,
                   source_slot, frameVars, deviceVars, queueVars, sample_handled, keyVars, vblanks,
                   volume, returned>>

\* load_save_and_symbols: GB_debugger_clear_symbols, rom_loaded = true, then
\* the battery and the symbol file when their paths were given
load_save_and_symbols(rom, sram_path, symbol_path) ==
    /\ gb_rom' = rom
    /\ rom_loaded' = TRUE
    /\ gb_battery' = IF sram_path # Null THEN sram_path ELSE gb_battery
    /\ gb_symbols' = symbol_path

\* load_rom with GB_load_rom returning r: the rewind input dropped, the audio
\* and the engine reset, the frame-time cursor back at 0, the files loaded only
\* if r is 0; r is returned
load_rom(c, rom_path, sram_path, symbol_path, r) ==
    /\ pc[c] = "idle"
    /\ mutex = Null
    /\ rewinding' = FALSE
    /\ reset_audio
    /\ frame_time_index' = 0
    /\ result' = r
    /\ IF Loaded(r)
       THEN load_save_and_symbols(rom_path, sram_path, symbol_path)
       ELSE UNCHANGED <<gb_rom, rom_loaded, gb_battery, gb_symbols>>
    /\ UNCHANGED <<videoVars, breakVars, loopVars, readVars, lateVars, source_slot, frame_rate, deviceVars, sample_handled, traceVars,
                   manual_paused, rewind_paused, pause_zero_speed, should_rewind,
                   vblank_hit, gb_rewind, gb_clock_multiplier, gb_rewind_length,
                   volume, sample_destination, returned>>

\* load_isx with GB_load_isx returning r: as load_rom, the rewind input kept
load_isx(c, isx_path, sram_path, symbol_path, r) ==
    /\ pc[c] = "idle"
    /\ mutex = Null
    /\ reset_audio
    /\ result' = r
    /\ IF Loaded(r)
       THEN load_save_and_symbols(isx_path, sram_path, symbol_path)
       ELSE UNCHANGED <<gb_rom, rom_loaded, gb_battery, gb_symbols>>
    /\ UNCHANGED <<videoVars, breakVars, loopVars, readVars, lateVars, source_slot, frameVars, deviceVars, sample_handled, traceVars,
                   manual_paused, rewind_paused, pause_zero_speed, should_rewind, rewinding,
                   vblank_hit, gb_rewind, gb_clock_multiplier, gb_rewind_length,
                   volume, sample_destination, returned>>

\* ---- the engine's debugger inside GB_run ---------------------------------

\* the engine executes the instruction at the program counter and stops for
\* input where a breakpoint is set or a step was asked for
GbExecute(t) ==
    /\ pc[t] = "gb_run"
    /\ mutex = t
    /\ ~gb_stopped
    /\ reply = Null
    /\ gb_pc' = (gb_pc + 1) % (MaxAddress + 1)
    /\ gb_stopped' = (gb_stepping \/ gb_pc' \in gb_breakpoints)
    /\ UNCHANGED <<videoVars, pauseVars, breakVars, loopVars, readVars, extVars, audioVars, romVars,
                   current_break_and_trace_remaining, current_break_and_trace_step_over,
                   break_and_trace_breakpoints, break_and_trace_result,
                   gb_breakpoints, gb_stepping, session_steps>>

\* the stopped debugger asks for input through the input callback
GbDebuggerStop(t) ==
    /\ gb_stopped
    /\ reply = Null
    /\ on_input_requested(t)

\* the debugger runs the command the callback returned
GbDebuggerCommand(t) ==
    /\ pc[t] = "gb_run"
    /\ mutex = t
    /\ reply # Null
    /\ gb_stepping' = (reply \in {"step", "next"})
    /\ gb_stopped' = FALSE
    /\ reply' = Null
    /\ UNCHANGED <<videoVars, pauseVars, loopVars, readVars, extVars, audioVars, romVars,
                   bp_paused, continue_text,
                   current_break_and_trace_remaining, current_break_and_trace_step_over,
                   break_and_trace_breakpoints, break_and_trace_result,
                   gb_pc, gb_breakpoints, session_steps>>

\* ---- specifications -----------------------------------------------------

DriverStep(t) ==
    \/ StartGameLoop(t)
    \/ SetLoopRunning(t)
    \/ Iterate(t)
    \/ GbRunReturn(t)
    \/ Wake(t)
    \/ LoopExit(t)

\* the frame buffers: the loop, the engine rendering frames, readers
VideoNext ==
    \/ StartGameLoop(Driver)
    \/ SetLoopRunning(Driver)
    \/ Iterate(Driver)
    \/ GbRunReturn(Driver)
    \/ GbRenderPixel(Driver)
    \/ on_vblank(Driver)
    \/ \E c \in Callers, n \in 0..(MaxPixels + 1) : read_pixel_buffer(c, n)
    \/ \E c \in Callers, m \in Models : set_model(c, m)
    \/ \E c \in Callers, m \in PixelBufferMode : set_pixel_buffering_mode(c, m)

SpecVideo == Init /\ [][VideoNext]_vars

\* The loop, the breakpoint handshake and the callers that synchronise with
\* them.  The engine renders no frame here, so the instance starts either fresh
\* or the way an earlier run left it after a rewind ran out of history and
\* set_model cleared the screen: rewind held and rewind_paused set.
InitSync ==
    /\ \E rw \in BOOLEAN : Stopped("DMG", <<0, 0, 0>>, rw)
    /\ NoTrace /\ NoAudio /\ NoRom
    /\ NoReader /\ NoFrames /\ NoDevice /\ NoRapidButtons(1) /\ NoHistory

SyncNext ==
    \/ DriverStep(Driver)
    \/ on_input_requested(Driver)
    \/ InputDecide(Driver)
    \/ InputReturn(Driver)
    \/ \E c \in Callers, cmd \in Commands : UnbreakCheck(c, cmd)
    \/ \E c \in Callers : UnbreakApply(c)
    \/ \E c \in Callers : EndGameLoopBegin(c) \/ EndGameLoopWait(c) \/ EndGameLoopEnd(c)
    \/ \E c \in Callers : EvaluateBegin(c) \/ EvaluateEnd(c)
    \/ \E c \in Callers : set_paused_manually(c, ~manual_paused)
    \/ \E c \in Callers : set_rewind(c, ~rewinding)
    \/ \E c \in Callers, m \in {0, 1000} : set_speed_multiplier(c, m)

Spec == InitSync /\ [][SyncNext]_vars

\* ---- the frame buffers (checked under SpecVideo) ------------------------

\* the lengths a caller passes to read_pixel_buffer
Lengths == 0..(MaxPixels + 1)

\* C1: read_pixel_buffer with a destination_length different from the pixel
\* count of the buffers returns false and leaves the destination as the caller
\* passed it; with the pixel count it returns true; in every mode.
C1_LengthDecidesSuccess ==
    [][\A c \in Callers, n \in Lengths :
          read_pixel_buffer(c, n) =>
             IF \A i \in 0..(NumBuffers - 1) : n = VectorSize(pixel_buffer[i])
             THEN success' = TRUE
             ELSE /\ success' = FALSE
                  /\ destination' = FreshDestination(n)
                  /\ \A i \in 0..(NumBuffers - 1) : n # VectorSize(pixel_buffer[i])]_vars

\* a failed read in blend mode left a non-empty destination untouched
C1_Witness ==
    /\ ~success
    /\ Len(destination) > 0
    /\ destination = FreshDestination(VectorSize(destination))
    /\ pixel_buffer_mode = "PixelBufferDoubleBlend"
    /\ work_buffer # previous_buffer

\* C2: a successful read_pixel_buffer leaves in the destination the content of
\* pixel_buffer[work_buffer] in Single mode and of pixel_buffer[previous_buffer]
\* in Double mode.
C2_CopiesSelectedSlot ==
    [][\A c \in Callers, n \in Lengths :
          (read_pixel_buffer(c, n) /\ success') =>
             /\ pixel_buffer_mode = "PixelBufferSingle"
                   => destination' = pixel_buffer[work_buffer]
             /\ pixel_buffer_mode = "PixelBufferDouble"
                   => destination' = pixel_buffer[previous_buffer]]_vars

\* a Double read returned the previous frame while the work slot held other pixels
C2_Witness ==
    /\ success
    /\ pixel_buffer_mode = "PixelBufferDouble"
    /\ destination = pixel_buffer[previous_buffer]
    /\ destination # pixel_buffer[work_buffer]
    /\ work_buffer # previous_buffer

\* C3: in Double mode the slot read_pixel_buffer copies is never the slot the
\* engine is writing: previous_buffer differs from work_buffer in every state.
C3_DoubleNeverReadsWorkSlot ==
    pixel_buffer_mode = "PixelBufferDouble" => previous_buffer # work_buffer

\* C4: in DoubleBlend mode every byte of the destination is the floor of the
\* average of the bytes of pixel_buffer[previous_buffer] and
\* pixel_buffer[previous_buffer_second], with no 8-bit wrap of the sum.
C4_BlendIsFloorAverage ==
    [][\A c \in Callers, n \in Lengths :
          (read_pixel_buffer(c, n) /\ success' /\ pixel_buffer_mode = "PixelBufferDoubleBlend") =>
             /\ Len(destination') = Len(pixel_buffer[previous_buffer])
             /\ \A q \in 1..Len(destination') :
                   /\ 2 * destination'[q] <= pixel_buffer[previous_buffer][q]
                                             + pixel_buffer[previous_buffer_second][q]
                   /\ pixel_buffer[previous_buffer][q]
                      + pixel_buffer[previous_buffer_second][q] <= 2 * destination'[q] + 1]_vars

\* a blend of two different frames: 0x00 with 0xFF gave 0x7F, 0xFF with 0xFF gave 0xFF
C4_Witness ==
    /\ success
    /\ pixel_buffer_mode = "PixelBufferDoubleBlend"
    /\ pixel_buffer[previous_buffer] # pixel_buffer[previous_buffer_second]
    /\ \E q \in 1..Len(destination) :
          /\ destination[q] = 127
          /\ {pixel_buffer[previous_buffer][q], pixel_buffer[previous_buffer_second][q]} = {0, 255}
    /\ \E q \in 1..Len(destination) :
          /\ destination[q] = 255
          /\ pixel_buffer[previous_buffer][q] = 255
          /\ pixel_buffer[previous_buffer_second][q] = 255

\* C5: every on_vblank rotates once (previous_second <- previous, previous <-
\* work, work <- work + 1 mod 4) and re-points the engine at the new work slot;
\* the engine's output pointer is the work slot in every state, and a rendered
\* pixel changes no other slot.
C5_OneRotationPerVblank ==
    /\ [](gb_pixels_output = work_buffer)
    /\ [][on_vblank(Driver) =>
             /\ previous_buffer_second' = previous_buffer
             /\ previous_buffer' = work_buffer
             /\ work_buffer' = (work_buffer + 1) % 4
             /\ gb_pixels_output' = work_buffer']_vars
    /\ [][GbRenderPixel(Driver) =>
             /\ pixel_buffer'[work_buffer] # pixel_buffer[work_buffer]
                  \/ pixel_buffer' = pixel_buffer
             /\ \A i \in 0..(NumBuffers - 1) :
                   i # work_buffer => pixel_buffer'[i] = pixel_buffer[i]]_vars

\* the rotation has wrapped around and the engine renders into slot 0 again
C5_Witness ==
    /\ work_buffer = 0
    /\ previous_buffer = 3
    /\ previous_buffer_second = 2
    /\ gb_scan > 0
    /\ pixel_buffer[3] # pixel_buffer[2]

\* ---- locking, the breakpoint handshake, termination (checked under Spec
\* and FairSpec) -----------------------------------------------------------

\* The scheduling the liveness statements rest on: every thread keeps taking
\* steps (WF), a thread blocked in mutex.lock() gets the mutex if it is free
\* again and again (SF on the callers' lock acquisitions), and GB_run runs a
\* bounded slice, so it returns although input requests may interrupt it (SF).
Fairness ==
    /\ WF_vars(DriverStep(Driver))
    /\ WF_vars(InputDecide(Driver))
    /\ WF_vars(InputReturn(Driver))
    /\ SF_vars(GbRunReturn(Driver))
    /\ \A c \in Callers :
          /\ SF_vars(UnbreakApply(c))
          /\ WF_vars(EndGameLoopWait(c))
          /\ SF_vars(EndGameLoopEnd(c))

FairSpec == InitSync /\ [][SyncNext]_vars /\ Fairness

\* where a thread is inside a call that reads or writes engine state: GB_run
\* and the handshake's exit (driver), GB_debugger_evaluate (callers)
AccessPositions == {"gb_run", "hs_leave", "ee_eval"}

\* C6: every access to the engine state and the shared fields is made by a
\* thread that holds the instance mutex; so a thread inside an engine call is
\* the owner of the mutex.
C6_AccessUnderMutex ==
    \A t \in Threads : pc[t] \in AccessPositions => mutex = t

\* C7: unbreak writes continue_text and bp_paused only while the driver is
\* waiting in the handshake.
C7_UnbreakOnlyWhileWaiting ==
    [][\A c \in Callers : UnbreakApply(c) => pc[Driver] = "hs_wait"]_vars

\* C8 as stated: whenever the handshake leaves its wait with a command from
\* unbreak pending, the command it returns to the engine is that command.
C8_ReturnsUnbreakCommand ==
    (pc[Driver] = "hs_leave" /\ continue_text # Null) => reply = continue_text

\* C8, amended: an unbreak call made while the driver waits in the handshake is
\* followed by the handshake's return; it returns the pending command unless
\* the termination flag is set, and then "continue"; the pending command is
\* cleared and the driver is back in GB_run with the mutex held.
C8_UnbreakReleasesHandshake ==
    /\ []((pc[Driver] = "hs_leave" /\ continue_text # Null /\ ~loop_finishing)
             => reply = continue_text)
    /\ []((pc[Driver] = "hs_leave" /\ loop_finishing) => reply = "continue")
    /\ [][InputReturn(Driver) => /\ continue_text' = Null
                         /\ mutex' = Driver
                         /\ pc'[Driver] = "gb_run"]_vars
    /\ \A c \in Callers :
          (pc[Driver] = "hs_wait" /\ pc[c] = "ub_lock")
             ~> (pc[Driver] = "gb_run" /\ mutex = Driver /\ continue_text = Null)

\* the handshake is about to return the "step" an unbreak left, no termination
C8_Witness ==
    /\ pc[Driver] = "hs_leave"
    /\ continue_text = "step"
    /\ reply = "step"
    /\ ~bp_paused
    /\ ~loop_finishing

\* C9: with the termination flag set when the driver re-acquires the mutex the
\* handshake returns "continue", whatever command is pending.
C9_TerminationHasPriority ==
    (pc[Driver] = "hs_leave" /\ loop_finishing) => reply = "continue"

\* termination and a pending "step" met; the handshake answers "continue"
C9_Witness ==
    /\ pc[Driver] = "hs_leave"
    /\ loop_finishing
    /\ continue_text = "step"
    /\ reply = "continue"

\* C10: the loop takes its exit only with the termination flag set by an
\* end_game_loop that has not returned yet; an end_game_loop called while the loop
\* runs is followed by the loop clearing loop_running, whether the loop was
\* running, paused or waiting at a breakpoint, and end_game_loop then returns.
C10_LoopEndsOnRequest ==
    /\ [][(pc[Driver] # "sgl_exit" /\ pc'[Driver] = "sgl_exit")
             => (loop_finishing /\ \E c \in Callers : pc[c] \in {"egl_wait", "egl_lock"})]_vars
    /\ \A c \in Callers :
          /\ (pc[c] = "egl_wait" /\ loop_running) ~> ~loop_running
          /\ (pc[c] = "egl_wait") ~> (pc[c] = "idle")

\* the loop has left on request out of a breakpoint pause nobody released
C10_Witness ==
    /\ pc[Driver] = "sgl_exit"
    /\ loop_running
    /\ loop_finishing
    /\ bp_paused
    /\ \E c \in Callers : pc[c] = "egl_wait"

\* C20: the driver does not keep the mutex: it is free again and again while
\* the driver waits at a breakpoint, sleeps in a pause or runs, and under fair
\* scheduling a caller blocked in mutex.lock() acquires it and returns.
C20_CallersAcquireMutex ==
    /\ []<>(mutex # Driver)
    /\ \A c \in Callers :
          /\ (pc[c] = "ub_lock") ~> (pc[c] = "idle")
          /\ (pc[c] = "egl_lock") ~> (pc[c] = "idle")

\* a caller of unbreak is blocked on the mutex the driver holds inside GB_run
C20_Witness ==
    /\ pc[Driver] = "gb_run"
    /\ mutex = Driver
    /\ \E c \in Callers : pc[c] = "ub_lock"

\* ---- starting and ending the loop (checked under SpecStart and Spec) ----

\* the threads that call start_game_loop here, and the one that ends the loop
Starters == {Driver, "ui"}
Ender == "audio"

\* inside the while(true) of start_game_loop
LoopPositions == {"sgl_spin", "gb_run", "hs_wait", "hs_leave", "sgl_sleep"}

StartNext ==
    \/ \E t \in Starters : DriverStep(t)
    \/ EndGameLoopBegin(Ender) \/ EndGameLoopWait(Ender) \/ EndGameLoopEnd(Ender)
    \/ set_paused_manually(Ender, ~manual_paused)

SpecStart == InitSync /\ [][StartNext]_vars

\* C11: at most one thread is inside the driver loop at any time, also when two
\* start_game_loop calls are made concurrently.
C11_AtMostOneLoop ==
    Cardinality({t \in Threads : pc[t] \in LoopPositions}) <= 1

\* C12: when end_game_loop returns no thread is in start_game_loop any more:
\* none runs the loop and none is about to enter it.
C12_NoLoopAfterEnd ==
    [][\A c \in Callers : EndGameLoopEnd(c) => pc'[Driver] = "idle"]_vars

\* ---- break and trace (checked under SpecTrace) --------------------------

\* The loop with the engine's debugger: the debugger window ("ui") registers
\* and removes traces, the other caller sets plain breakpoints and releases
\* breakpoint pauses.
\* the step counts the debugger window asks for: the shortest and the longest
StepCounts == {1, MaxSteps}

\* the sessions asked for step into calls
StepOver == {FALSE}

TraceNext ==
    \/ StartGameLoop(Driver)
    \/ SetLoopRunning(Driver)
    \/ Iterate(Driver)
    \/ GbRunReturn(Driver)
    \/ GbExecute(Driver)
    \/ GbDebuggerStop(Driver)
    \/ GbDebuggerCommand(Driver)
    \/ InputDecide(Driver)
    \/ InputReturn(Driver)
    \/ \E a \in Addresses, n \in StepCounts, over \in StepOver :
          break_and_trace_at("ui", a, n, over)
    \/ BreakAndTraceAdd("ui")
    \/ \E a \in Addresses : remove_breakpoint("ui", a)
    \/ \E a \in Addresses : break_at("audio", a)
    \/ \E cmd \in Commands : UnbreakCheck("audio", cmd)
    \/ UnbreakApply("audio")

\* a constructed instance; the rewind input plays no part here
InitTrace ==
    /\ Stopped("DMG", <<0, 0, 0>>, FALSE)
    /\ NoTrace /\ NoAudio /\ NoRom
    /\ NoReader /\ NoFrames /\ NoDevice /\ NoRapidButtons(1) /\ NoHistory

SpecTrace == InitTrace /\ [][TraceNext]_vars

\* C13: a session registered with n >= 1 records exactly n snapshots when no
\* breakpoint is hit on its way.  The input request at an address with an entry
\* starts the session with one snapshot and n steps, and removes the entry and
\* its breakpoint (one-shot); each later request away from breakpoints adds one
\* snapshot and takes one step, until the request with one step left, which
\* adds none, finds n snapshots recorded and pauses.  No session records more
\* snapshots than its n.
C13_SessionRecordsAllSteps ==
    /\ [][(GbDebuggerStop(Driver) /\ FirstEntryAt(break_and_trace_breakpoints, gb_pc) > 0) =>
             LET b == break_and_trace_breakpoints[FirstEntryAt(break_and_trace_breakpoints, gb_pc)]
             IN  /\ break_and_trace_result' = <<gb_pc>>
                 /\ current_break_and_trace_remaining' = b[2]
                 /\ session_steps' = b[2]
                 /\ gb_pc \notin gb_breakpoints'
                 /\ FirstEntryAt(break_and_trace_breakpoints', gb_pc) = 0
                 /\ pc'[Driver] = "gb_run"]_vars
    /\ [][(/\ GbDebuggerStop(Driver)
           /\ current_break_and_trace_remaining > 0
           /\ Len(break_and_trace_result) + current_break_and_trace_remaining = session_steps + 1
           /\ gb_pc \notin gb_breakpoints) =>
             IF current_break_and_trace_remaining > 1
             THEN /\ break_and_trace_result' = Append(break_and_trace_result, gb_pc)
                  /\ current_break_and_trace_remaining' = current_break_and_trace_remaining - 1
                  /\ pc'[Driver] = "gb_run"
                  /\ mutex' = Driver
             ELSE /\ Len(break_and_trace_result) = session_steps
                  /\ break_and_trace_result' = break_and_trace_result
                  /\ current_break_and_trace_remaining' = 0
                  /\ pc'[Driver] = "hs_wait"]_vars
    /\ [](Len(break_and_trace_result) <= session_steps)

\* a session of MaxSteps steps ran to its end: MaxSteps snapshots, the driver
\* paused, nothing registered at the address it started from
C13_Witness ==
    /\ pc[Driver] = "hs_wait"
    /\ bp_paused
    /\ current_break_and_trace_remaining = 0
    /\ session_steps = MaxSteps
    /\ Len(break_and_trace_result) = MaxSteps
    /\ break_and_trace_result[1] \notin gb_breakpoints
    /\ FirstEntryAt(break_and_trace_breakpoints, break_and_trace_result[1]) = 0

\* C14: an input request in a session with steps still remaining, at an
\* address in the breakpoint list that has no break-and-trace entry, appends no
\* snapshot and sends the driver into the breakpoint wait, the session having
\* recorded fewer snapshots than its step count.
C14_BreakpointEndsSession ==
    [][(/\ GbDebuggerStop(Driver)
        /\ current_break_and_trace_remaining > 1
        /\ gb_pc \in gb_breakpoints
        /\ FirstEntryAt(break_and_trace_breakpoints, gb_pc) = 0) =>
          /\ break_and_trace_result' = break_and_trace_result
          /\ Len(break_and_trace_result') < session_steps
          /\ bp_paused'
          /\ mutex' = Null
          /\ pc'[Driver] = "hs_wait"]_vars

\* the driver waits at a plain breakpoint met in the middle of a session
C14_Witness ==
    /\ pc[Driver] = "hs_wait"
    /\ bp_paused
    /\ current_break_and_trace_remaining > 0
    /\ Len(break_and_trace_result) > 0
    /\ Len(break_and_trace_result) < session_steps
    /\ gb_pc \in gb_breakpoints
    /\ gb_pc # break_and_trace_result[1]

\* ---- rewind and speed (checked under SpecRewind) ------------------------

\* the multipliers a caller asks for, in thousandths: negative, zero, the floor
\* itself and normal speed
Speeds == {-1000, 0, SpeedFloor, 1000}

\* the history sizes a caller configures: none, and MaxRewind entries
RewindLengths == {0, MaxRewind}

\* The loop rendering frames, with the rewind input, the rewind length and the
\* speed changed from outside.
RewindNext ==
    \/ StartGameLoop(Driver)
    \/ SetLoopRunning(Driver)
    \/ Iterate(Driver)
    \/ GbRunReturn(Driver)
    \/ Wake(Driver)
    \/ GbRenderPixel(Driver)
    \/ on_vblank(Driver)
    \/ \E c \in Callers : set_rewind(c, ~rewinding)
    \/ \E c \in Callers, n \in RewindLengths : set_rewind_length(c, n)
    \/ \E c \in Callers, m \in Speeds : set_speed_multiplier(c, m)

SpecRewind == InitTrace /\ [][RewindNext]_vars

\* C15: the first iteration that attempts a latched rewind on an empty history
\* sets rewind_paused and leaves the engine state and the history as they were.
C15_EmptyHistoryPausesRewind ==
    [][(/\ Iterate(Driver)
        /\ should_rewind
        /\ gb_rewind = <<>>
        /\ ~Paused(rewind_paused /\ rewinding)) =>
          /\ rewind_paused'
          /\ ~should_rewind'
          /\ gb_rewind' = <<>>
          /\ gb_colour' = gb_colour
          /\ gb_scan' = gb_scan
          /\ pixel_buffer' = pixel_buffer]_vars

\* rewind asked for on an instance that never had a history: the loop has set
\* the rewind pause in the iteration now inside GB_run
C15_Witness ==
    /\ rewind_paused
    /\ rewinding
    /\ ~should_rewind
    /\ gb_rewind_length = 0
    /\ gb_rewind = <<>>
    /\ pc[Driver] = "gb_run"

Volumes == {MinVolume - 1, MinVolume, 37, MaxVolume, MaxVolume + 1}

\* samples, and the buffers made of them
Samples == {-3, 8}
RECURSIVE SeqsUpTo(_, _)
SeqsUpTo(S, n) ==
    IF n = 0 THEN {<<>>}
    ELSE LET shorter == SeqsUpTo(S, n - 1)
         IN  shorter \cup {Append(q, x) : q \in shorter, x \in S}

\* files, optional files, and the results of the engine's loader (0, ENOENT)
Files == {"game", "other"}
SramPaths == {Null, "sram"}
SymbolPaths == {Null, "sym"}
LoadResults == {0, 2}

\* a constructed instance with samples buffered by earlier engine runs
InitData ==
    /\ Stopped("DMG", <<0, 0, 0>>, FALSE)
    /\ NoTrace /\ NoRom
    /\ NoReader /\ NoFrames /\ NoDevice /\ NoRapidButtons(1) /\ NoHistory
    /\ volume = MaxVolume
    /\ sample_buffer \in SeqsUpTo(Samples, MaxSamples)
    /\ sample_destination = <<>>
    /\ returned = <<Null, Null>>

DataNext ==
    \/ \E c \in Callers, v \in Volumes : set_volume(c, v)
    \/ \E c \in Callers : get_volume(c)
    \/ \E c \in Callers : get_sample_buffer(c)
    \/ \E c \in Callers, dest \in SeqsUpTo(Samples, 1) : transfer_sample_buffer(c, dest)
    \/ \E c \in Callers, f \in Files, sram \in SramPaths, sym \in SymbolPaths, r \in LoadResults :
          load_rom(c, f, sram, sym, r)
    \/ \E c \in Callers, f \in Files, sram \in SramPaths, sym \in SymbolPaths, r \in LoadResults :
          load_isx(c, f, sram, sym, r)
    \/ \E c \in Callers : set_rewind(c, ~rewinding)

SpecData == InitData /\ [][DataNext]_vars

\* C17: set_volume(v) stores min(100, max(0, v)), get_volume returns the stored
\* volume, and the stored volume is within [0, 100] in every state.
C17_VolumeClamped ==
    /\ [][\A c \in Callers, v \in Volumes :
            set_volume(c, v) =>
               volume' = (IF v < 0 THEN 0 ELSE IF v > 100 THEN 100 ELSE v)]_vars
    /\ [][\A c \in Callers : get_volume(c) => (returned'[2] = volume /\ volume' = volume)]_vars
    /\ [](volume \in 0..100)

\* a request below the range was stored as 0 and read back
C17_Witness ==
    /\ volume = 0
    /\ returned = <<"get_volume", 0>>

\* C18: get_sample_buffer returns exactly the buffered samples and leaves the
\* buffer empty; transfer_sample_buffer leaves the destination holding its
\* previous content followed by exactly the buffered samples, and leaves the
\* buffer empty.
C18_SamplesDrained ==
    /\ [][\A c \in Callers :
            get_sample_buffer(c) => (returned'[2] = sample_buffer /\ sample_buffer' = <<>>)]_vars
    /\ [][\A c \in Callers, dest \in SeqsUpTo(Samples, 1) :
            transfer_sample_buffer(c, dest) =>
               /\ Len(sample_destination') = Len(dest) + Len(sample_buffer)
               /\ SubSeq(sample_destination', 1, Len(dest)) = dest
               /\ SubSeq(sample_destination', Len(dest) + 1, Len(sample_destination'))
                     = sample_buffer
               /\ sample_buffer' = <<>>]_vars

\* a destination holding -3 received the buffered samples 8, -3
C18_Witness ==
    /\ sample_destination = <<-3, 8, -3>>
    /\ sample_buffer = <<>>

\* C19: load_rom and load_isx return the engine's result, 0 on success; a
\* failed load leaves rom_loaded unchanged and loads neither the SRAM nor the
\* symbol file; a successful load sets rom_loaded and loads the files given.
C19_LoadReportsResult ==
    [][\A c \in Callers, f \in Files, sram \in SramPaths, sym \in SymbolPaths, r \in LoadResults :
          (load_rom(c, f, sram, sym, r) \/ load_isx(c, f, sram, sym, r)) =>
             /\ result' = r
             /\ r = 0 => /\ rom_loaded'
                         /\ sram # Null => gb_battery' = sram
                         /\ sym # Null => gb_symbols' = sym
             /\ r # 0 => /\ rom_loaded' = rom_loaded
                         /\ gb_battery' = gb_battery
                         /\ gb_symbols' = gb_symbols]_vars

\* a load failed after one that succeeded: non-zero result, the flag and the
\* files of the successful load still in place
C19_Witness ==
    /\ result # 0
    /\ rom_loaded
    /\ gb_battery = "sram"
    /\ gb_symbols = "sym"

\* C22: an input request that aborts a session, made with steps remaining at
\* an address in the breakpoint list that has no break-and-trace entry, leaves
\* the remaining-step counter at 0.
C22_AbortEndsSession ==
    [][(/\ GbDebuggerStop(Driver)
        /\ current_break_and_trace_remaining > 1
        /\ gb_pc \in gb_breakpoints
        /\ FirstEntryAt(break_and_trace_breakpoints, gb_pc) = 0) =>
          current_break_and_trace_remaining' = 0]_vars

\* C23: the input request that ends a session which ran through all its steps,
\* away from breakpoints and entries, sends the driver back into the engine
\* without the breakpoint pause.
C23_SessionEndKeepsRunning ==
    [][(/\ GbDebuggerStop(Driver)
        /\ current_break_and_trace_remaining = 1
        /\ Len(break_and_trace_result) = session_steps
        /\ gb_pc \notin gb_breakpoints
        /\ FirstEntryAt(break_and_trace_breakpoints, gb_pc) = 0) =>
          /\ ~bp_paused'
          /\ pc'[Driver] = "gb_run"]_vars

\* C24: an iteration that processes a latched rewind request pops the history
\* twice (the history loses its last two entries, or all it has), sets
\* rewind_paused exactly when the second pop fails, that is when the history
\* held fewer than two entries, and clears should_rewind; should_rewind is set
\* only by a vblank with the rewind input held.
C24_RewindPopsTwice ==
    /\ [][(/\ Iterate(Driver)
           /\ should_rewind
           /\ ~Paused(rewind_paused /\ rewinding)) =>
             /\ gb_rewind' = SubSeq(gb_rewind, 1, Len(gb_rewind) - 2)
             /\ rewind_paused' = (Len(gb_rewind) < 2)
             /\ ~should_rewind'
             /\ Len(gb_rewind) > 0 => gb_colour' = gb_rewind[Max(1, Len(gb_rewind) - 1)]]_vars
    /\ [][(~should_rewind /\ should_rewind') => (on_vblank(Driver) /\ rewinding)]_vars
    /\ [][on_vblank(Driver) => should_rewind' = rewinding]_vars

\* a history of one entry: the first pop took it, the second failed, and the
\* iteration that set the rewind pause is inside GB_run
C24_Witness ==
    /\ rewind_paused
    /\ rewinding
    /\ ~should_rewind
    /\ gb_rewind_length = MaxRewind
    /\ gb_rewind = <<>>
    /\ gb_scan = 0
    /\ gb_colour # <<0, 0, 0>>
    /\ pc[Driver] = "gb_run"

\* C25: the driver is inside the engine's run entry point only with
\* rewind_paused false; the iteration that sets rewind_paused does not enter it.
C25_NoAdvanceWhileRewindPaused ==
    pc[Driver] = "gb_run" => ~rewind_paused

\* C26: rewind_paused stays set while the rewind input stays held, and an
\* iteration made meanwhile sleeps without popping; the first iteration made
\* with the input released runs as not rewind-paused: it enters the engine
\* unless another pause holds, and leaves rewind_paused set only if it
\* processed a request latched earlier whose second pop failed.
C26_RewindPauseUntilRelease ==
    /\ [][(rewind_paused /\ rewinding /\ rewinding') => rewind_paused']_vars
    /\ [][(Iterate(Driver) /\ rewind_paused /\ rewinding) =>
             /\ pc'[Driver] = "sgl_sleep"
             /\ gb_rewind' = gb_rewind
             /\ should_rewind' = should_rewind]_vars
    /\ [][(Iterate(Driver) /\ rewind_paused /\ ~rewinding) =>
             /\ (~manual_paused /\ ~pause_zero_speed) => pc'[Driver] = "gb_run"
             /\ rewind_paused' => (should_rewind /\ Len(gb_rewind) < 2 /\ pc'[Driver] = "gb_run")]_vars

\* the rewind input was released under a rewind pause and the loop, back from
\* its sleep, is about to run the first iteration after the release
C26_Witness ==
    /\ rewind_paused
    /\ ~rewinding
    /\ ~manual_paused
    /\ ~pause_zero_speed
    /\ pc[Driver] = "sgl_spin"

\* C27: manual_paused is written by set_paused_manually alone, and an iteration
\* that finds it set begins no engine quantum: it unlocks and sleeps.  The
\* driver enters GB_run from the head of an iteration only with the flag clear.
C27_ManualPauseStartsNoQuantum ==
    /\ [][(manual_paused' # manual_paused) =>
             \E c \in Callers : set_paused_manually(c, manual_paused')]_vars
    /\ [][(Iterate(Driver) /\ manual_paused) =>
             (pc'[Driver] = "sgl_sleep" /\ mutex' = Null)]_vars
    /\ [][(pc[Driver] = "sgl_spin" /\ pc'[Driver] = "gb_run") => ~manual_paused]_vars

\* the loop sleeps under the manual pause alone
C27_Witness ==
    /\ manual_paused
    /\ ~rewind_paused
    /\ ~pause_zero_speed
    /\ loop_running
    /\ pc[Driver] = "sgl_sleep"

\* ---- read_pixel_buffer against the rotation (checked under SpecRead) ------

\* the loop rendering frames while two callers read, one of them also changing
\* the presentation mode
ReadNext ==
    \/ StartGameLoop(Driver)
    \/ SetLoopRunning(Driver)
    \/ Iterate(Driver)
    \/ GbRunReturn(Driver)
    \/ GbRenderPixel(Driver)
    \/ on_vblank(Driver)
    \/ \E c \in Callers, n \in {MaxPixels - 1, MaxPixels} : ReadLock(c, n)
    \/ \E c \in Callers : ReadChoose(c)
    \/ \E c \in Callers : ReadCopy(c)
    \/ \E c \in Callers : ReadUnlock(c)
    \/ \E mode \in PixelBufferMode : set_pixel_buffering_mode("ui", mode)

SpecRead == InitTrace /\ [][ReadNext]_vars

\* inside read_pixel_buffer, between its lock and its unlock
ReadPositions == {"rpb_choose", "rpb_copy", "rpb_unlock"}

SamplePairs == {<<-3, 8>>}

\* what SDL_OpenAudioDevice returns (0: failure) and the buffer sizes it grants
Devices == {0, 1}
BufferSizes == 1..MaxBufferSize

\* the engine calls the sample callback.  Without a device nobody drains the
\* buffer here, so it is let grow to 2 * MaxSamples samples only.
GbProduceSample(t, left, right) ==
    /\ \/ sdl_audio_device # 0
       \/ /\ Len(sample_buffer) < 2 * MaxSamples
          /\ Len(delivered) < 2 * MaxSamples
    /\ on_sample(t, left, right)

\* the loop running the engine, which produces samples; the application
\* enabling audio, opening devices and switching turbo mode; the device playing
AudioNext ==
    \/ StartGameLoop(Driver)
    \/ SetLoopRunning(Driver)
    \/ Iterate(Driver)
    \/ GbRunReturn(Driver)
    \/ \E p \in SamplePairs : GbProduceSample(Driver, p[1], p[2])
    \/ \E enabled \in BOOLEAN : set_audio_enabled("ui", enabled)
    \/ \E device \in Devices, samples \in BufferSizes : set_up_sdl_audio("ui", device, samples)
    \/ \E turbo \in BOOLEAN : set_turbo_mode("ui", turbo)
    \/ SdlPlay

SpecAudio == InitTrace /\ [][AudioNext]_vars

\* C28: a sample callback with a device attached and more frames queued than
\* bufferSize x (4 in turbo mode, 8 otherwise) clears the device queue and the
\* sample buffer outside turbo mode and stores nothing; in turbo mode it leaves
\* the queue and the buffer as they were; either way the driver goes on inside
\* the engine and no result is written.
C28_OverrunFlushesOrDrops ==
    [][\A p \in SamplePairs :
          (/\ on_sample(Driver, p[1], p[2])
           /\ sdl_audio_device # 0
           /\ sdl_queued > sdl_audio_buffer_size * (IF turbo_mode_enabled THEN 4 ELSE 8)) =>
             /\ IF ~turbo_mode_enabled
                THEN sdl_queued' = 0 /\ sample_buffer' = <<>>
                ELSE sdl_queued' = sdl_queued /\ sample_buffer' = sample_buffer
             /\ pc' = pc
             /\ result' = result]_vars

\* an overrun outside turbo mode was flushed
C28_Witness ==
    /\ sample_handled = "flushed"
    /\ ~turbo_mode_enabled
    /\ sdl_audio_device # 0
    /\ sdl_queued = 0
    /\ sample_buffer = <<>>

\* C29 as stated: a sample callback with a device attached and no overrun
\* appends the pair, and sends the buffer, leaving it empty and the device
\* unpaused, exactly when its frame count has reached the target: 0 in turbo
\* mode, 4 x bufferSize with fewer than 2 x bufferSize frames queued,
\* bufferSize otherwise.
C29_SampleStoredOrSent ==
    [][\A p \in SamplePairs :
          (/\ on_sample(Driver, p[1], p[2])
           /\ sdl_audio_device # 0
           /\ sdl_queued <= sdl_audio_buffer_size * (IF turbo_mode_enabled THEN 4 ELSE 8)) =>
             LET appended == sample_buffer \o <<p[1], p[2]>>
                 target   == IF turbo_mode_enabled THEN 0
                             ELSE IF sdl_queued < 2 * sdl_audio_buffer_size
                                  THEN 4 * sdl_audio_buffer_size
                                  ELSE sdl_audio_buffer_size
             IN  IF Len(appended) \div 2 >= target
                 THEN /\ sdl_queued' = sdl_queued + Len(appended) \div 2
                      /\ sample_buffer' = <<>>
                      /\ ~sdl_paused'
                 ELSE /\ sample_buffer' = appended
                      /\ sdl_queued' = sdl_queued
                      /\ sdl_paused' = sdl_paused]_vars

\* C29, with audio enabled: the same.
C29_EnabledSampleStoredOrSent ==
    [][\A p \in SamplePairs :
          (/\ on_sample(Driver, p[1], p[2])
           /\ audio_enabled
           /\ sdl_audio_device # 0
           /\ sdl_queued <= sdl_audio_buffer_size * (IF turbo_mode_enabled THEN 4 ELSE 8)) =>
             LET appended == sample_buffer \o <<p[1], p[2]>>
                 target   == IF turbo_mode_enabled THEN 0
                             ELSE IF sdl_queued < 2 * sdl_audio_buffer_size
                                  THEN 4 * sdl_audio_buffer_size
                                  ELSE sdl_audio_buffer_size
             IN  IF Len(appended) \div 2 >= target
                 THEN /\ sdl_queued' = sdl_queued + Len(appended) \div 2
                      /\ sample_buffer' = <<>>
                      /\ ~sdl_paused'
                 ELSE /\ sample_buffer' = appended
                      /\ sdl_queued' = sdl_queued
                      /\ sdl_paused' = sdl_paused]_vars

\* the prebuffer of 4 x bufferSize frames was sent to an empty queue
C29_Witness ==
    /\ sample_handled = "sent"
    /\ ~turbo_mode_enabled
    /\ sdl_queued = 4 * sdl_audio_buffer_size
    /\ sample_buffer = <<>>
    /\ ~sdl_paused

\* ---- the frame times (checked under SpecFrames) --------------------------

\* the loop rendering frames and accounting them, a caller loading ROMs
FramesNext ==
    \/ StartGameLoop(Driver)
    \/ SetLoopRunning(Driver)
    \/ Iterate(Driver)
    \/ GbRunReturnTimed(Driver)
    \/ GbRenderPixel(Driver)
    \/ on_vblank(Driver)
    \/ \E r \in LoadResults : load_rom("ui", "game", Null, Null, r)

SpecFrames == InitTrace /\ [][FramesNext]_vars

\* C30: the frame-time cursor is in 0..29; an iteration in which a vblank
\* occurred advances it by one modulo 30 and one without leaves it; the frame
\* rate is computed exactly in the iterations that take the cursor from 29 to
\* 0; load_rom sets the cursor to 0 and computes nothing.
C30_FrameTimeCursor ==
    /\ [](frame_time_index \in 0..29)
    /\ [][GbRunReturnTimed(Driver) =>
             IF vblank_hit
             THEN /\ frame_time_index' = (frame_time_index + 1) % 30
                  /\ (frame_rate' # frame_rate) <=> (frame_time_index = 29)
             ELSE /\ frame_time_index' = frame_time_index
                  /\ frame_rate' = frame_rate]_vars
    /\ [][(frame_rate' # frame_rate) =>
             (GbRunReturnTimed(Driver) /\ vblank_hit /\ frame_time_index' = 0)]_vars
    /\ [][(\E r \in LoadResults : load_rom("ui", "game", Null, Null, r)) =>
             (frame_time_index' = 0 /\ frame_rate' = frame_rate)]_vars

\* thirty frames after a load_rom that reset the cursor: the cursor has wrapped
\* and the frame rate was computed once
C30_Witness ==
    /\ frame_time_index = 0
    /\ frame_rate = 1
    /\ result # 0
    /\ pc[Driver] = "sgl_spin"

\* ---- rapid-fire buttons (checked under SpecRapid) -------------------------

\* the instance before its loop starts, with a switch period of 1..MaxSwitchFrames
InitRapid ==
    /\ Stopped("DMG", <<0, 0, 0>>, FALSE)
    /\ NoTrace /\ NoAudio /\ NoRom
    /\ NoReader /\ NoFrames /\ NoDevice /\ NoHistory
    /\ \E n \in 1..MaxSwitchFrames : NoRapidButtons(n)

\* the loop rendering frames, a caller pressing and releasing buttons
RapidNext ==
    \/ StartGameLoop(Driver)
    \/ SetLoopRunning(Driver)
    \/ Iterate(Driver)
    \/ GbRunReturn(Driver)
    \/ GbRenderPixel(Driver)
    \/ on_vblank_rapid(Driver)
    \/ \E k \in Keys, pressed \in BOOLEAN : set_rapid_button_state("ui", k, pressed)
    \/ \E k \in Keys, pressed \in BOOLEAN : set_button_state("ui", k, pressed)

SpecRapid == InitRapid /\ [][RapidNext]_vars

\* C31: with a switch period of N the phase flips at exactly every Nth vblank
\* since the last flip (or construction) and at no other step, and at a flip
\* the key of every button registered at that moment takes the new phase,
\* whatever the explicit calls left it at.
C31_PhaseFlipsEveryNth ==
    /\ [](flip_age < rapid_button_switch_frames)
    /\ [][on_vblank_rapid(Driver) =>
             ((rapid_button_state' # rapid_button_state)
                 <=> (flip_age + 1 = rapid_button_switch_frames))]_vars
    /\ [][(rapid_button_state' # rapid_button_state) =>
             /\ on_vblank_rapid(Driver)
             /\ \A q \in 1..Len(rapid_buttons) :
                    gb_keys'[rapid_buttons[q]] = rapid_button_state']_vars

\* a flip to the on phase with the longest period has just pressed a registered
\* button, the other one is held by an explicit press
C31_Witness ==
    /\ rapid_button_switch_frames = MaxSwitchFrames
    /\ rapid_button_state
    /\ flip_age = 0
    /\ rapid_buttons = <<"a">>
    /\ gb_keys["a"]
    /\ gb_keys["start"]

\* ---- the pause flag and the pending command (checked under Spec) ----------

\* C32: is_paused_from_breakpoint is true only while the driver is in the
\* breakpoint handshake: it is false whenever the driver is advancing the engine
\* or is outside the engine (between iterations, or after the loop's exit).
C32_PausedFlagOnlyInHandshake ==
    bp_paused => pc[Driver] \in {"hs_wait", "hs_leave"}

\* C33: the pending continue command is empty whenever the driver is not in
\* the breakpoint handshake, so that no pause finds a command left over from an
\* unbreak made for an earlier one.
C33_NoCommandOutsideHandshake ==
    continue_text # Null => pc[Driver] \in {"hs_wait", "hs_leave"}

\* ---- the driver's locking (checked under SpecLock) -------------------------

\* the loop with its pauses and its exit, the engine executing and stopping,
\* a trace registered, a breakpoint set, unbreak and end_game_loop
LockNext ==
    \/ DriverStep(Driver)
    \/ GbExecute(Driver)
    \/ GbDebuggerStop(Driver)
    \/ GbDebuggerCommand(Driver)
    \/ InputDecide(Driver)
    \/ InputReturn(Driver)
    \/ break_and_trace_at("ui", 1, MaxSteps, FALSE)
    \/ BreakAndTraceAdd("ui")
    \/ break_at("ui", MaxAddress)
    \/ set_paused_manually("ui", ~manual_paused)
    \/ \E cmd \in Commands : UnbreakCheck("audio", cmd)
    \/ UnbreakApply("audio")
    \/ EndGameLoopBegin("audio") \/ EndGameLoopWait("audio") \/ EndGameLoopEnd("audio")

SpecLock == InitTrace /\ [][LockNext]_vars

\* where the driver is inside GB_run or an engine callback with the lock taken
DriverInEngine == pc[Driver] \in {"gb_run", "hs_leave"}

\* C34: the driver holds the mutex whenever engine code or a callback runs;
\* the input callback is entered with the mutex held and left with it held,
\* whether it returns a trace step, an unbreak command or the termination
\* reply; wherever the driver is about to lock (the loop's head, the end of a
\* sleep, a round of the wait) it does not hold the mutex, and every unlock of
\* the driver is of a mutex it holds.
C34_DriverLockBalance ==
    /\ [](DriverInEngine => mutex = Driver)
    /\ [](~DriverInEngine => mutex # Driver)
    /\ [][GbDebuggerStop(Driver) => (mutex = Driver /\ (pc'[Driver] = "gb_run" => mutex' = Driver))]_vars
    /\ [][InputReturn(Driver) => (mutex' = Driver /\ pc'[Driver] = "gb_run")]_vars
    /\ [][(mutex = Driver /\ mutex' # Driver) =>
             (mutex' = Null /\ pc'[Driver] # pc[Driver])]_vars

\* the callback has left its wait on termination with the lock taken, after a
\* trace session recorded its steps
C34_Witness ==
    /\ pc[Driver] = "hs_leave"
    /\ mutex = Driver
    /\ loop_finishing
    /\ reply = "continue"
    /\ Len(break_and_trace_result) = MaxSteps

\* ---- trace requests of any length, from two threads (SpecEntries) ---------

\* the step counts a request is registered with, 0 included
StepCountsFromZero == {0, MaxSteps}

\* the loop, the engine executing and stopping, both callers registering
\* traces at one address, breakpoints set and removed, unbreak
EntriesNext ==
    \/ StartGameLoop(Driver)
    \/ SetLoopRunning(Driver)
    \/ Iterate(Driver)
    \/ GbRunReturn(Driver)
    \/ GbExecute(Driver)
    \/ GbDebuggerStop(Driver)
    \/ GbDebuggerCommand(Driver)
    \/ InputDecide(Driver)
    \/ InputReturn(Driver)
    \/ \E c \in Callers, n \in StepCountsFromZero : break_and_trace_at(c, 1, n, FALSE)
    \/ \E c \in Callers : BreakAndTraceAdd(c)
    \/ remove_breakpoint("ui", 1)
    \/ remove_all_breakpoints("ui")
    \/ break_at("ui", MaxAddress)
    \/ UnbreakCheck("audio", "continue")
    \/ UnbreakApply("audio")

SpecEntries == InitTrace /\ [][EntriesNext]_vars

\* C35: the result sequence never holds more snapshots than the step count of
\* the request whose session recorded them; with a step count of 0 it holds
\* none.
C35_SnapshotsWithinStepCount ==
    Len(break_and_trace_result) <= session_steps

\* C36: the break-and-trace list holds at most one entry per address, and the
\* address of every entry is in the engine's breakpoint list.
C36_OneEntryPerAddress ==
    /\ \A i, j \in 1..Len(break_and_trace_breakpoints) :
          break_and_trace_breakpoints[i][1] = break_and_trace_breakpoints[j][1] => i = j
    /\ \A i \in 1..Len(break_and_trace_breakpoints) :
          break_and_trace_breakpoints[i][1] \in gb_breakpoints

\* ---- samples pulled by the caller (checked under SpecSamples) -------------

\* two pairs that differ, so that order and side can be told
SamplePairsTwo == {<<-3, 8>>, <<5, -1>>}

\* after set_audio_enabled(true, rate) on a constructed instance without device
InitSamples ==
    /\ Stopped("DMG", <<0, 0, 0>>, FALSE)
    /\ NoTrace /\ NoAudio /\ NoRom
    /\ NoReader /\ NoFrames /\ NoRapidButtons(1) /\ NoHistory
    /\ audio_enabled = TRUE
    /\ sdl_audio_device = 0
    /\ sdl_audio_buffer_size = 0
    /\ turbo_mode_enabled = FALSE
    /\ sdl_queued = 0
    /\ sdl_paused = TRUE
    /\ sample_handled = Null

\* the loop, the engine producing samples and stopping at a breakpoint or for a
\* trace step, a caller pulling the samples
SamplesNext ==
    \/ StartGameLoop(Driver)
    \/ SetLoopRunning(Driver)
    \/ Iterate(Driver)
    \/ GbRunReturn(Driver)
    \/ \E p \in SamplePairsTwo : GbProduceSample(Driver, p[1], p[2])
    \/ GbExecute(Driver)
    \/ GbDebuggerStop(Driver)
    \/ GbDebuggerCommand(Driver)
    \/ InputDecide(Driver)
    \/ InputReturn(Driver)
    \/ break_at("ui", 1)
    \/ UnbreakCheck("ui", "step")
    \/ UnbreakApply("ui")
    \/ get_sample_buffer("audio")
    \/ transfer_sample_buffer("audio", <<>>)

SpecSamples == InitSamples /\ [][SamplesNext]_vars

\* C37 as stated: what the next get_sample_buffer or transfer_sample_buffer
\* hands out is, in order, every pair the callback was handed since the last
\* one, also across breakpoint pauses and trace steps.
C37_NoSampleLost ==
    sample_buffer = delivered

\* C37: the buffer is at any time the end of the pairs handed since the last
\* pull, in their order; the callback adds its pair at the end, a pull hands
\* out the buffer whole and empties it, an input request of the engine (a
\* breakpoint pause or a trace step) empties it, and nothing else changes it,
\* so that without input requests no pair is lost.
C37_SamplesInOrderUntilInputRequest ==
    /\ [](/\ Len(sample_buffer) <= Len(delivered)
          /\ sample_buffer = SubSeq(delivered, Len(delivered) - Len(sample_buffer) + 1,
                                    Len(delivered)))
    /\ [][\A p \in SamplePairsTwo :
             GbProduceSample(Driver, p[1], p[2]) =>
                sample_buffer' = sample_buffer \o <<p[1], p[2]>>]_vars
    /\ [][get_sample_buffer("audio") =>
             (returned'[2] = sample_buffer /\ sample_buffer' = <<>>)]_vars
    /\ [][transfer_sample_buffer("audio", <<>>) =>
             (sample_destination' = sample_buffer /\ sample_buffer' = <<>>)]_vars
    /\ [][GbDebuggerStop(Driver) => sample_buffer' = <<>>]_vars
    /\ [][(sample_buffer = delivered /\ ~GbDebuggerStop(Driver)) =>
             sample_buffer' = delivered']_vars

\* a pull handed out two different pairs in the order they were delivered
C37_Witness ==
    /\ returned = <<"get_sample_buffer", <<5, -1, -3, 8>>>>
    /\ sample_buffer = <<>>
    /\ delivered = <<>>
    /\ current_break_and_trace_remaining = 0

\* C38: with audio enabled and a device with a buffer size above 0 attached,
\* the sample buffer holds after every return of the sample callback an even
\* number of samples and fewer than 4 x buffer size frames, whatever it held
\* when the device was attached and in either turbo mode.
C38_BufferBelowFourBuffers ==
    [][\A p \in SamplePairs :
          (/\ GbProduceSample(Driver, p[1], p[2])
           /\ audio_enabled
           /\ sdl_audio_device # 0
           /\ sdl_audio_buffer_size > 0) =>
             /\ Len(sample_buffer') % 2 = 0
             /\ Len(sample_buffer') \div 2 < 4 * sdl_audio_buffer_size]_vars

\* the callback has stored a pair and left the buffer one frame short of the
\* target of four buffers
C38_Witness ==
    /\ sample_handled = "stored"
    /\ audio_enabled
    /\ sdl_audio_device # 0
    /\ ~turbo_mode_enabled
    /\ Len(sample_buffer) = 2 * (4 * sdl_audio_buffer_size - 1)

\* ---- the buffer indices over time (checked under SpecVideo) ---------------

\* C39: the three indices are in 0..3 and the four buffers have one length in
\* every state; set_model sets the three indices to 0; after one vblank since
\* construction or the last set_model previous_buffer is the slot before
\* work_buffer, after two previous_buffer_second is the slot before that, and
\* the three are then pairwise different.
C39_IndicesFollowWorkBuffer ==
    /\ [](/\ work_buffer \in 0..3
          /\ previous_buffer \in 0..3
          /\ previous_buffer_second \in 0..3
          /\ \A i, j \in 0..3 : Len(pixel_buffer[i]) = Len(pixel_buffer[j]))
    /\ [][(\E c \in Callers, m \in Models : set_model(c, m)) =>
             (work_buffer' = 0 /\ previous_buffer' = 0 /\ previous_buffer_second' = 0)]_vars
    /\ [](vblanks >= 1 => previous_buffer = (work_buffer + 3) % 4)
    /\ [](vblanks >= 2 =>
             /\ previous_buffer_second = (work_buffer + 2) % 4
             /\ work_buffer # previous_buffer
             /\ work_buffer # previous_buffer_second
             /\ previous_buffer # previous_buffer_second)

\* the indices have wrapped around after a set_model: work slot 0 follows 3 and 2
C39_Witness ==
    /\ gb_model = "SGB"
    /\ vblanks = 2
    /\ work_buffer = 0
    /\ previous_buffer = 3
    /\ previous_buffer_second = 2

====
